---- MODULE Spec2Model ----
(***************************************************************************)
(* Animated window borders: the colour codec, the rule matcher, the colour *)
(* resolver, the animation engine and the update pass of src/src/model.py, *)
(* as state machines.                                                      *)
(*                                                                         *)
(* Representation.  A Python str is a sequence of one-character strings.   *)
(* A COLORREF (a DWORD) is the tuple of its four bytes, most significant   *)
(* first, so that 0xFFFFFFFF is <<255,255,255,255>>.  An animation colour  *)
(* (0xRRGGBB) is an integer.  A float speed is an integer count of tenths, *)
(* elapsed animation time an integer count of thousandths.                 *)
(***************************************************************************)
EXTENDS Integers, Sequences, FiniteSets, TLC

VARIABLES
    cIn, cRef, cHex, cNorm, cStage,     \* the codec applied to one input
    pRules, pProc, pBest, pStage,       \* pick_rule applied to one window
    rRule, rConfigAnim, rOut, rStage,   \* resolve_colors applied to one rule
    config_data,    \* AppController.config_data: [animation, window_rules]
    windows,        \* the desktop: handle -> <<>> (no window) or <<window>>
    fg,             \* GetForegroundWindow(), 0 for none
    anim_state,     \* Animation._state
    _pass_id,       \* apply_colors_once._pass_id
    last_colors,    \* _last_colors
    border,         \* the border colour DWM holds for each handle
    frames,         \* per handle, the key and colour color_for returned in the latest pass
    pass_queue,     \* the windows EnumWindows has still to hand to cb, <<>> between passes
    pass_mode,      \* "idle", or the running pass: "full" or "animated_only"
    phRule,         \* two runs on one animated rule: the rule's kind, speed and colours,
    phPasses,       \* the passes both runs have made,
    phA, phB,       \* and Animation._state in each run
    native_calls,   \* per handle, the colour _DwmSetWindowAttribute was called with in the latest pass
    advSt, advSpeed, advScale,  \* Animation._advance on one key's state, a speed and a time scale
    advPid,         \* the pass counter the calls of _advance carry
    advSeen,        \* the pass ids of the calls of _advance made so far, in order
    wLast0, wLast,  \* set_dwm_border_color called twice: _last_colors before and now,
    wHwnd, wColor,  \* the handle and the colour of the calls,
    wLog,           \* and what each call did with the native primitive
    cfg_file,       \* the parsed config.json on disk
    service_enabled,    \* config_data["service_enabled"]
    timer_active, anim_timer_active,    \* AppController.timer / animTimer isActive()
    pid_name_cache, \* _pid_name_cache
    pid_last_seen,  \* _pid_last_seen, each time.time() t held as the age now - t
    pidQueries,     \* per pid, the calls of _query_process_name_native made for it
    pidOut,         \* the latest call of get_process_name_fast: its pid, what it
                    \* found in the cache, what it returned, <<>> for no call
    lerpA, lerpB,   \* Animation._lerp_rgb applied to two colours
    lerpT, lerpOut, \* at a parameter t in thousandths, and its result
    rbSt, rbSpeed,  \* Animation._rainbow on one key's state at a speed,
    rbTrail,        \* and the hexagon vertices the stored colour has reached, in order
    opName, opIndex,    \* the latest rule operation of the controller: its name, its index,
    opArg,              \* its rule argument, <<>> for none,
    opBefore, opMsg     \* the rule list it was called on and the string it returned

codecVars == <<cIn, cRef, cHex, cNorm, cStage>>
pickVars == <<pRules, pProc, pBest, pStage>>
resolveVars == <<rRule, rConfigAnim, rOut, rStage>>
passVars == <<config_data, windows, fg, anim_state, _pass_id, last_colors, border, frames,
             pass_queue, pass_mode, native_calls>>
phaseVars == <<phRule, phPasses, phA, phB>>
advanceVars == <<advSt, advSpeed, advScale, advPid, advSeen>>
writerVars == <<wLast0, wLast, wHwnd, wColor, wLog>>
controllerVars == <<cfg_file, service_enabled, timer_active, anim_timer_active>>
pidVars == <<pid_name_cache, pid_last_seen, pidQueries, pidOut>>
engineVars == <<lerpA, lerpB, lerpT, lerpOut, rbSt, rbSpeed, rbTrail>>
opVars == <<opName, opIndex, opArg, opBefore, opMsg>>
vars == <<codecVars, pickVars, resolveVars, passVars, phaseVars,
          advanceVars, writerVars, controllerVars, pidVars, engineVars, opVars>>

(***************************************************************************)
(* Strings                                                                 *)
(***************************************************************************)
UpperChars == <<"A","B","C","D","E","F","G","H","I","J","K","L","M",
                "N","O","P","Q","R","S","T","U","V","W","X","Y","Z">>
LowerChars == <<"a","b","c","d","e","f","g","h","i","j","k","l","m",
                "n","o","p","q","r","s","t","u","v","w","x","y","z">>
HexChars == <<"0","1","2","3","4","5","6","7","8","9","a","b","c","d","e","f">>
HexCharsUpper == <<"0","1","2","3","4","5","6","7","8","9","A","B","C","D","E","F">>

\* str.lower() and str.upper(), one character
UpperSet == {UpperChars[i] : i \in DOMAIN UpperChars}
LowerSet == {LowerChars[i] : i \in DOMAIN LowerChars}
LowerOf == [c \in UpperSet |-> LowerChars[CHOOSE i \in DOMAIN UpperChars : UpperChars[i] = c]]
UpperOf == [c \in LowerSet |-> UpperChars[CHOOSE i \in DOMAIN LowerChars : LowerChars[i] = c]]
LowerChar(c) == IF c \in UpperSet THEN LowerOf[c] ELSE c
UpperChar(c) == IF c \in LowerSet THEN UpperOf[c] ELSE c
Lower(s) == [i \in DOMAIN s |-> LowerChar(s[i])]
Upper(s) == [i \in DOMAIN s |-> UpperChar(s[i])]

\* str.strip(): leading and trailing blanks removed
RECURSIVE LStrip(_)
LStrip(s) == IF s # <<>> /\ Head(s) = " " THEN LStrip(Tail(s)) ELSE s
RECURSIVE RStrip(_)
RStrip(s) == IF s # <<>> /\ s[Len(s)] = " " THEN RStrip(SubSeq(s, 1, Len(s) - 1)) ELSE s
Strip(s) == RStrip(LStrip(s))

HexSet == {HexChars[i] : i \in DOMAIN HexChars}
HexValOf == [c \in HexSet |-> (CHOOSE i \in DOMAIN HexChars : HexChars[i] = c) - 1]
IsHexLower(c) == c \in HexSet
\* int(c, 16) of one hexadecimal character of either case
HexVal(c) == HexValOf[LowerChar(c)]
\* int(s[i] + s[i+1], 16)
HexByte(s, i) == 16 * HexVal(s[i]) + HexVal(s[i + 1])
\* f"{n:02X}"
Hex02X(n) == <<HexCharsUpper[(n \div 16) + 1], HexCharsUpper[(n % 16) + 1]>>

STR_DEFAULT == <<"d","e","f","a","u","l","t">>
STR_NONE == <<"n","o","n","e">>
STR_BLACK == <<"#","0","0","0","0","0","0">>

(***************************************************************************)
(* Colour helpers (model.py, "Color helpers")                              *)
(***************************************************************************)
DWMWA_COLOR_DEFAULT == <<255, 255, 255, 255>>
DWMWA_COLOR_NONE == <<255, 255, 255, 254>>
COLOR_INVALID == <<0, 0, 0, 255>>
Sentinels == {DWMWA_COLOR_DEFAULT, DWMWA_COLOR_NONE, COLOR_INVALID}

\* hex_to_colorref on v already stripped of one leading "#": the malformed
\* test and the BGR integer
HexBodyToColorref(v) ==
    IF Len(v) # 6 \/ \E i \in DOMAIN v : ~IsHexLower(v[i])
    THEN COLOR_INVALID
    ELSE <<0, HexByte(v, 5), HexByte(v, 3), HexByte(v, 1)>>

\* a parser that reads every string it cannot decode as black
HexToColorrefLenient(value) ==
    LET v == Lower(Strip(value))
        c == IF v # <<>> /\ Head(v) = "#" THEN HexBodyToColorref(Tail(v))
             ELSE HexBodyToColorref(v)
    IN  IF v = STR_DEFAULT THEN DWMWA_COLOR_DEFAULT
        ELSE IF v = STR_NONE THEN DWMWA_COLOR_NONE
        ELSE IF c = COLOR_INVALID THEN <<0, 0, 0, 0>> ELSE c

hex_to_colorref(value) ==
    LET v == Lower(Strip(value)) IN
    IF v = STR_DEFAULT THEN DWMWA_COLOR_DEFAULT
    ELSE IF v = STR_NONE THEN DWMWA_COLOR_NONE
    ELSE IF v # <<>> /\ Head(v) = "#" THEN HexBodyToColorref(Tail(v))
    ELSE HexBodyToColorref(v)

colorref_to_hex(colorref) ==
    IF colorref \in Sentinels
    THEN STR_BLACK
    ELSE <<"#">> \o Hex02X(colorref[4]) \o Hex02X(colorref[3]) \o Hex02X(colorref[2])

normalize_hex(s0) ==
    LET s == Strip(s0) IN
    IF s = <<>> THEN STR_BLACK
    ELSE IF Lower(s) \in {STR_DEFAULT, STR_NONE} THEN Lower(s)
    ELSE LET t == IF Head(s) # "#" THEN <<"#">> \o s ELSE s IN
         IF Len(t) # 7 THEN STR_BLACK ELSE Upper(t)

(***************************************************************************)
(* The codec applied to user input: SpecCodec                              *)
(***************************************************************************)
\* characters the sampled channel bytes are written with
CodecHexSample == {"0", "a", "F", "f"}
CodecPairs == {<<x, y>> : x \in CodecHexSample, y \in CodecHexSample}
CodecPrefixes == {<<>>, <<"#">>}
\* every 6-digit string over the sample, with and without "#"
CodecValidInputs ==
    {p \o r \o g \o b : p \in CodecPrefixes, r \in CodecPairs, g \in CodecPairs, b \in CodecPairs}
\* keywords, padded input, and malformed input
CodecOtherInputs ==
    { <<>>, <<" ">>, STR_DEFAULT, STR_NONE,
      <<"D","e","f","a","u","l","t">>, <<" ","N","O","N","E"," ">>,
      <<"n","o","t","-","a","-","c","o","l","o","r">>,
      <<"#">>, <<"#","f","f">>, <<"f","f","0","0","0">>,
      <<"#","#","f","f","0","0","0","0">>, <<"#","g","g","0","0","0","0">>,
      <<"f","f","0","0","0","0","0">>, <<"#","f","f","0","0","0","0","0">>,
      <<" ","#","f","f","0","0","0","0"," ">>, <<" ","0","0","F","F","0","0">>,
      <<"#","f","f"," ","0","0","0">> }
CodecInputs == CodecValidInputs \cup CodecOtherInputs

\* the codec at rest, for the specifications that do not exercise it
CodecIdle ==
    /\ cIn = <<>>
    /\ cRef = COLOR_INVALID
    /\ cHex = <<>>
    /\ cNorm = <<>>
    /\ cStage = "idle"

\* pick_rule at rest
PickIdle ==
    /\ pRules = <<>>
    /\ pProc = <<>>
    /\ pBest = 0
    /\ pStage = "idle"

\* resolve_colors at rest
ResolveIdle ==
    /\ rRule = <<>>
    /\ rConfigAnim = <<>>
    /\ rOut = <<>>
    /\ rStage = "idle"

\* the update pass at rest
PassIdle ==
    /\ config_data = <<>>
    /\ windows = <<>>
    /\ fg = 0
    /\ anim_state = <<>>
    /\ _pass_id = 0
    /\ last_colors = <<>>
    /\ border = <<>>
    /\ frames = <<>>
    /\ pass_queue = <<>>
    /\ pass_mode = "idle"
    /\ native_calls = <<>>

\* the two compared runs at rest
PhaseIdle ==
    /\ phRule = <<>>
    /\ phPasses = 0
    /\ phA = <<>>
    /\ phB = <<>>

\* _advance at rest
AdvanceIdle ==
    /\ advSt = <<>>
    /\ advSpeed = 0
    /\ advScale = 0
    /\ advPid = 0
    /\ advSeen = <<>>

\* the two calls of set_dwm_border_color at rest
WriterIdle ==
    /\ wLast0 = <<>>
    /\ wLast = <<>>
    /\ wHwnd = 0
    /\ wColor = <<>>
    /\ wLog = <<>>

\* no controller: no file, no timers
ControllerIdle ==
    /\ cfg_file = <<>>
    /\ service_enabled = FALSE
    /\ timer_active = FALSE
    /\ anim_timer_active = FALSE

\* no call of get_process_name_fast recorded
LookupIdle ==
    /\ pidQueries = <<>>
    /\ pidOut = <<>>

\* the process-name cache at rest
PidCacheIdle ==
    /\ pid_name_cache = <<>>
    /\ pid_last_seen = <<>>
    /\ LookupIdle

\* _lerp_rgb and _rainbow at rest
EngineIdle ==
    /\ lerpA = 0
    /\ lerpB = 0
    /\ lerpT = 0
    /\ lerpOut = 0
    /\ rbSt = <<>>
    /\ rbSpeed = 0
    /\ rbTrail = <<>>

\* no rule operation called yet
OpIdle ==
    /\ opName = "none"
    /\ opIndex = 0
    /\ opArg = <<>>
    /\ opBefore = <<>>
    /\ opMsg = <<>>

\* everything this module adds to the codec, the matcher, the resolver, the
\* pass and the compared runs, at rest
RestIdle == AdvanceIdle /\ WriterIdle /\ ControllerIdle /\ PidCacheIdle /\ EngineIdle /\ OpIdle

InitCodec ==
    /\ cIn \in CodecInputs
    /\ cRef = COLOR_INVALID
    /\ cHex = <<>>
    /\ cNorm = <<>>
    /\ cStage = "input"
    /\ PickIdle
    /\ ResolveIdle
    /\ PassIdle
    /\ PhaseIdle
    /\ RestIdle

\* parse: hex_to_colorref(input)
CodecParse ==
    /\ cStage = "input"
    /\ cRef' = hex_to_colorref(cIn)
    /\ cStage' = "parsed"
    /\ UNCHANGED <<cIn, cHex, cNorm>>
    /\ UNCHANGED <<pickVars, resolveVars, passVars, phaseVars,
                 advanceVars, writerVars, controllerVars, pidVars, engineVars, opVars>>

\* to_display: colorref_to_hex of the parsed value
CodecToDisplay ==
    /\ cStage = "parsed"
    /\ cHex' = colorref_to_hex(cRef)
    /\ cStage' = "displayed"
    /\ UNCHANGED <<cIn, cRef, cNorm>>
    /\ UNCHANGED <<pickVars, resolveVars, passVars, phaseVars,
                 advanceVars, writerVars, controllerVars, pidVars, engineVars, opVars>>

\* normalize: normalize_hex of the displayed string
CodecNormalize ==
    /\ cStage = "displayed"
    /\ cNorm' = normalize_hex(cHex)
    /\ cStage' = "normalized"
    /\ UNCHANGED <<cIn, cRef, cHex>>
    /\ UNCHANGED <<pickVars, resolveVars, passVars, phaseVars,
                 advanceVars, writerVars, controllerVars, pidVars, engineVars, opVars>>

NextCodec == CodecParse \/ CodecToDisplay \/ CodecNormalize

SpecCodec == InitCodec /\ [][NextCodec]_vars

\* "exactly 6 hexadecimal characters after an optional #", either case
IsValidHex6(s) ==
    LET v == IF s # <<>> /\ Head(s) = "#" THEN Tail(s) ELSE s IN
    Len(v) = 6 /\ \A i \in DOMAIN v : IsHexLower(LowerChar(v[i]))
\* the uppercase "#RRGGBB" form of a valid 6-digit string
CanonicalHex(s) ==
    Upper(IF Head(s) = "#" THEN s ELSE <<"#">> \o s)

\* C4: the four ColorSpec variants are disjoint: every valid 6-hex-digit
\* string, with or without "#", parses to a value that is none of the
\* encodings of Default, None and Invalid.
C4_ParsedRgbIsNoSentinel ==
    (cStage # "input" /\ IsValidHex6(cIn))
        => cRef \notin {DWMWA_COLOR_DEFAULT, DWMWA_COLOR_NONE, COLOR_INVALID}

\* C5: for every valid 6-hex-digit string s, normalize(to_display(parse(s)))
\* is the uppercase "#RRGGBB" form of s.
C5_RoundTrip ==
    (cStage = "normalized" /\ IsValidHex6(cIn)) => cNorm = CanonicalHex(cIn)


(***************************************************************************)
(* Rules.  A rule is the dict of config["window_rules"]: match, contains,  *)
(* the two colour strings (<<>> when the key is missing or empty) and the  *)
(* animation dict [has, type, speed]: has is FALSE when the rule has no    *)
(* "animation" key, type is <<>> when missing, speed is 0 when missing.    *)
(***************************************************************************)
STR_GLOBAL == <<"g","l","o","b","a","l">>
STR_PROCESS == <<"p","r","o","c","e","s","s">>
MATCH_GLOBAL == <<"G","l","o","b","a","l">>
MATCH_PROCESS == <<"P","r","o","c","e","s","s">>

STR_RAINBOW == <<"r","a","i","n","b","o","w">>
STR_PULSE == <<"p","u","l","s","e">>
STR_FADE == <<"f","a","d","e">>
STR_BREATH == <<"b","r","e","a","t","h">>
STR_TRI == <<"t","r","i">>
STR_SPARKLE == <<"s","p","a","r","k","l","e">>
STR_STEPS == <<"s","t","e","p","s">>

Anim(type, speed) == [has |-> TRUE, type |-> type, speed |-> speed]
NoAnimDict == [has |-> FALSE, type |-> <<>>, speed |-> 0]
\* {"type": "none", "speed": 1.0}
ANIM_NONE == Anim(STR_NONE, 10)

Rule(match, contains, active, inactive, animation) ==
    [match |-> match, contains |-> contains,
     active_border_color |-> active, inactive_border_color |-> inactive,
     animation |-> animation]

IsGlobalRule(r) == Lower(r.match) = STR_GLOBAL
IsProcessRule(r) == Lower(r.match) = STR_PROCESS

\* a in b, for Python strings
IsSubstring(a, b) ==
    \E i \in 0..(Len(b) - Len(a)) : SubSeq(b, i + 1, i + Len(a)) = a

(***************************************************************************)
(* Rule matching (model.py, "Rule matching")                               *)
(***************************************************************************)
\* a variant that does not rank Process above Global
ScoreRuleFlat(rule) == 0

_score_rule(rule) ==
    IF IsProcessRule(rule) THEN 3
    ELSE IF IsGlobalRule(rule) THEN 0
    ELSE 0

\* a matcher that compares the two strings as written
MatchesCaseSensitive(rule, process_name) ==
    IF IsGlobalRule(rule) THEN TRUE
    ELSE IF IsProcessRule(rule) THEN IsSubstring(rule.contains, process_name)
    ELSE FALSE

_matches(rule, process_name) ==
    IF IsGlobalRule(rule) THEN TRUE
    ELSE IF IsProcessRule(rule) THEN IsSubstring(Lower(rule.contains), Lower(process_name))
    ELSE FALSE

\* a variant that lets a later rule replace an equal one
KeyGreaterOrEqual(a, b) == a[1] > b[1] \/ (a[1] = b[1] /\ a[2] >= b[2])

\* key > (best_score, len(best contains)): Python's tuple comparison
KeyGreater(a, b) == a[1] > b[1] \/ (a[1] = b[1] /\ a[2] > b[2])

\* the loop of pick_rule from rule i on; best is the index of the best rule
\* so far (0 for None)
RECURSIVE PickScan(_, _, _, _, _)
PickScan(rules, i, best, best_score, process_name) ==
    IF i > Len(rules) THEN best
    ELSE IF /\ _matches(rules[i], process_name)
            /\ KeyGreater(<<_score_rule(rules[i]), Len(rules[i].contains)>>,
                          <<best_score, IF best = 0 THEN 0 ELSE Len(rules[best].contains)>>)
         THEN PickScan(rules, i + 1, i, _score_rule(rules[i]), process_name)
         ELSE PickScan(rules, i + 1, best, best_score, process_name)

\* a variant whose running best score starts at 0
PickRuleFromZero(rules, process_name) == PickScan(rules, 1, 0, 0, process_name)

\* the result is the index of the rule returned, 0 for None
pick_rule(rules, process_name) == PickScan(rules, 1, 0, -1, process_name)

(***************************************************************************)
(* pick_rule applied to a rule list and a window: SpecPick                 *)
(***************************************************************************)
MaxRules == 3

PickContains == {<<>>, <<"a">>, <<"b">>, <<"a","b">>, <<"B">>}
PickProcNames == {<<>>, <<"a","b">>, <<"A","b">>, <<"c">>}
\* the rule editor's initial colours and animation
PickRule(match, contains) ==
    Rule(match, contains, <<"#","F","F","0","0","0","0">>, <<"#","0","0","0","0","F","F">>, ANIM_NONE)
PickRuleSample ==
    {PickRule(MATCH_PROCESS, c) : c \in PickContains}
        \cup {PickRule(MATCH_GLOBAL, <<>>), PickRule(STR_GLOBAL, <<"a","b">>)}

RECURSIVE SeqsUpTo(_, _)
SeqsUpTo(S, n) ==
    IF n = 0 THEN {<<>>}
    ELSE LET shorter == SeqsUpTo(S, n - 1) IN
         shorter \cup {Append(q, x) : q \in {t \in shorter : Len(t) = n - 1}, x \in S}

InitPick ==
    /\ pRules \in SeqsUpTo(PickRuleSample, MaxRules)
    /\ pProc \in PickProcNames
    /\ pBest = 0
    /\ pStage = "input"
    /\ CodecIdle
    /\ ResolveIdle
    /\ PassIdle
    /\ PhaseIdle
    /\ RestIdle

PickApply ==
    /\ pStage = "input"
    /\ pBest' = pick_rule(pRules, pProc)
    /\ pStage' = "picked"
    /\ UNCHANGED <<pRules, pProc>>
    /\ UNCHANGED <<codecVars, resolveVars, passVars, phaseVars,
                 advanceVars, writerVars, controllerVars, pidVars, engineVars, opVars>>

NextPick == PickApply

SpecPick == InitPick /\ [][NextPick]_vars


\* the Process rules of the list whose contains, lowercased, is a substring
\* of the lowercased process name
MatchingProcess(rules, process_name) ==
    {i \in DOMAIN rules :
        /\ IsProcessRule(rules[i])
        /\ IsSubstring(Lower(rules[i].contains), Lower(process_name))}
HasGlobal(rules) == \E i \in DOMAIN rules : IsGlobalRule(rules[i])
\* the list as the configuration layer keeps it: one Global rule, first
GlobalOnTop(rules) ==
    /\ rules # <<>>
    /\ IsGlobalRule(rules[1])
    /\ \A i \in DOMAIN rules : IsGlobalRule(rules[i]) => i = 1
EmptyProcessRule(r) == IsProcessRule(r) /\ r.contains = <<>>

\* C3: a Process rule with an empty contains matches no window: for every
\* rule list with its one Global rule first, pick_rule never returns a
\* Process rule whose contains is empty (such a window goes to Global).
C3_EmptyContainsMatchesNothing ==
    (pStage = "picked" /\ GlobalOnTop(pRules))
        => (pBest # 0 /\ ~EmptyProcessRule(pRules[pBest]))

\* C8: among the Process rules that match the window, pick_rule returns one
\* with the longest contains, and of those the first in the list.
C8_LongestContainsThenFirst ==
    (pStage = "picked" /\ MatchingProcess(pRules, pProc) # {})
        => /\ pBest \in MatchingProcess(pRules, pProc)
           /\ \A j \in MatchingProcess(pRules, pProc) :
                 /\ Len(pRules[j].contains) <= Len(pRules[pBest].contains)
                 /\ Len(pRules[j].contains) = Len(pRules[pBest].contains) => pBest <= j

\* C8's case: three Process rules match, the two longest tie, a shorter one
\* comes first, and the first of the two longest is returned.
C8_Witness ==
    /\ pStage = "picked"
    /\ Len(pRules) = 3
    /\ MatchingProcess(pRules, pProc) = {1, 2, 3}
    /\ Len(pRules[1].contains) < Len(pRules[2].contains)
    /\ Len(pRules[2].contains) = Len(pRules[3].contains)
    /\ pRules[2] # pRules[3]
    /\ pBest = 2

\* C9: whenever a Process rule matches the window, pick_rule returns a
\* Process rule, never the Global rule, wherever the Global rule stands and
\* whatever the lengths of the contains strings.
C9_ProcessBeatsGlobal ==
    (pStage = "picked" /\ MatchingProcess(pRules, pProc) # {})
        => (pBest # 0 /\ IsProcessRule(pRules[pBest]))

\* C9's case: a Global rule with the longer contains stands after the one
\* matching Process rule, and the Process rule is returned.
C9_Witness ==
    /\ pStage = "picked"
    /\ Len(pRules) = 2
    /\ IsProcessRule(pRules[1]) /\ IsGlobalRule(pRules[2])
    /\ Len(pRules[2].contains) > Len(pRules[1].contains)
    /\ pBest = 1

\* C10: with a Global rule in the list pick_rule returns a rule for every
\* window; it returns None only for a list that is empty or has no Global
\* rule.
C10_GlobalAlwaysMatches ==
    pStage = "picked"
        => /\ HasGlobal(pRules) => pBest # 0
           /\ pBest = 0 => (pRules = <<>> \/ ~HasGlobal(pRules))

\* C10's case: Process rules are present, none matches the window, and the
\* Global rule is returned.
C10_Witness ==
    /\ pStage = "picked"
    /\ HasGlobal(pRules)
    /\ \E i \in DOMAIN pRules : IsProcessRule(pRules[i])
    /\ MatchingProcess(pRules, pProc) = {}
    /\ pBest # 0 /\ IsGlobalRule(pRules[pBest])


(***************************************************************************)
(* Colour resolution (model.py, "Color resolution")                        *)
(***************************************************************************)
\* an optional rule is <<>> (None) or <<rule>>
NoRule == <<>>
MINUS_ONE == <<-1>>

\* (rule_anim.get("type") or "none").lower()
AnimType(a) == IF a.type = <<>> THEN STR_NONE ELSE Lower(a.type)
\* float(rule_anim.get("speed") or 1.0)
AnimSpeed(a) == IF a.speed = 0 THEN 10 ELSE a.speed

\* config.get("animation") or {"type": "none", "speed": 1.0}
GlobalAnimDefaults(config_animation) ==
    IF config_animation.has THEN config_animation ELSE ANIM_NONE

\* a variant that never consults the defaults
RuleAnimOwnOnly(rule, defaults_animation) ==
    IF rule # NoRule /\ rule[1].animation.has THEN rule[1].animation ELSE ANIM_NONE

\* (rule.get("animation") if rule else None) or defaults.get("animation")
\*     or {"type": "none", "speed": 1.0}
RuleAnim(rule, defaults_animation) ==
    IF rule # NoRule /\ rule[1].animation.has THEN rule[1].animation
    ELSE IF defaults_animation.has THEN defaults_animation
    ELSE ANIM_NONE

\* a variant whose missing colour is black
RuleColorOrBlack(rule, field) ==
    IF rule = NoRule \/ rule[1][field] = <<>> THEN STR_BLACK ELSE rule[1][field]

\* (rule or {}).get(field) or "default"
RuleColorOrDefault(rule, field) ==
    IF rule = NoRule \/ rule[1][field] = <<>> THEN STR_DEFAULT ELSE rule[1][field]

\* hex_to_colorref of the field, COLOR_INVALID replaced by hex_to_colorref("default")
ResolveStaticColor(rule, field) ==
    LET c == hex_to_colorref(RuleColorOrDefault(rule, field)) IN
    IF c = COLOR_INVALID THEN hex_to_colorref(STR_DEFAULT) ELSE c

resolve_colors(rule, defaults_animation) ==
    LET rule_anim == RuleAnim(rule, defaults_animation)
        atype == AnimType(rule_anim)
        aspeed == AnimSpeed(rule_anim)
    IN  IF atype # STR_NONE
        THEN [active |-> MINUS_ONE, inactive |-> MINUS_ONE,
              anim |-> [type |-> atype, speed |-> aspeed]]
        ELSE [active |-> ResolveStaticColor(rule, "active_border_color"),
              inactive |-> ResolveStaticColor(rule, "inactive_border_color"),
              anim |-> [type |-> STR_NONE, speed |-> 10]]

(***************************************************************************)
(* resolve_colors applied to a rule and the configuration's animation:     *)
(* SpecResolve                                                             *)
(***************************************************************************)
ResolveAnimSample ==
    { NoAnimDict, ANIM_NONE, Anim(<<>>, 20), Anim(<<"N","o","n","e">>, 5),
      Anim(STR_RAINBOW, 25), Anim(<<"P","u","l","s","e">>, 0), Anim(STR_FADE, 1),
      Anim(<<"b","o","g","u","s">>, 10) }
ResolveActiveSample ==
    { <<>>, <<"#","F","F","0","0","0","0">>, <<"c","6","a","0","f","6">>,
      STR_DEFAULT, <<"n","o","t","-","a","-","c","o","l","o","r">> }
ResolveInactiveSample ==
    { <<>>, <<"#","f","f","f","f","f","f">>, STR_NONE, <<"#","1","2">> }
ResolveRuleSample ==
    { Rule(m, <<>>, a, i, an) :
        m \in {MATCH_GLOBAL, MATCH_PROCESS}, a \in ResolveActiveSample,
        i \in ResolveInactiveSample, an \in ResolveAnimSample }
ResolveConfigAnimSample ==
    { NoAnimDict, ANIM_NONE, Anim(<<>>, 10), Anim(STR_RAINBOW, 30),
      Anim(<<"T","r","i">>, 0) }

InitResolve ==
    /\ rRule \in {NoRule} \cup {<<r>> : r \in ResolveRuleSample}
    /\ rConfigAnim \in ResolveConfigAnimSample
    /\ rOut = <<>>
    /\ rStage = "input"
    /\ CodecIdle
    /\ PickIdle
    /\ PassIdle
    /\ PhaseIdle
    /\ RestIdle

\* apply_colors_once, lines 479 and 502
ResolveApply ==
    /\ rStage = "input"
    /\ rOut' = resolve_colors(rRule, GlobalAnimDefaults(rConfigAnim))
    /\ rStage' = "resolved"
    /\ UNCHANGED <<rRule, rConfigAnim>>
    /\ UNCHANGED <<codecVars, pickVars, passVars, phaseVars,
                 advanceVars, writerVars, controllerVars, pidVars, engineVars, opVars>>

NextResolve == ResolveApply

SpecResolve == InitResolve /\ [][NextResolve]_vars

IsStatic(out) == out.anim.type = STR_NONE
\* the kind and speed an animation dict stands for
KindOf(a) == IF ~a.has \/ a.type = <<>> THEN STR_NONE ELSE Lower(a.type)
SpeedOf(a) == IF ~a.has \/ a.speed = 0 THEN 10 ELSE a.speed
AnimatedWith(out, a) ==
    /\ out.anim = [type |-> KindOf(a), speed |-> SpeedOf(a)]
    /\ out.active = MINUS_ONE /\ out.inactive = MINUS_ONE

\* C6 as stated: when the matched rule's animation kind is none and the
\* global default's kind is not, the result is Animated with the global
\* default's kind and speed; Static only when both kinds are none.
C6_FallbackByKind ==
    (rStage = "resolved" /\ rRule # NoRule)
        => /\ (KindOf(rRule[1].animation) = STR_NONE /\ KindOf(rConfigAnim) # STR_NONE)
                 => AnimatedWith(rOut, rConfigAnim)
           /\ IsStatic(rOut)
                 => (KindOf(rRule[1].animation) = STR_NONE /\ KindOf(rConfigAnim) = STR_NONE)

\* C6 amended: the global default stands in only for a rule that carries no
\* animation entry.  With no entry and a global default of another kind
\* than none the result is Animated with the global default's kind and
\* speed; with an entry of kind none the result is Static whatever the
\* global default; so the result is Static exactly when the rule's entry
\* has kind none, or the rule has no entry and the global default's kind is
\* none.
C6_FallbackByPresence ==
    (rStage = "resolved" /\ rRule # NoRule)
        => LET ra == rRule[1].animation IN
           /\ (~ra.has /\ KindOf(rConfigAnim) # STR_NONE) => AnimatedWith(rOut, rConfigAnim)
           /\ (ra.has /\ KindOf(ra) = STR_NONE) => IsStatic(rOut)
           /\ IsStatic(rOut) <=> \/ ra.has /\ KindOf(ra) = STR_NONE
                                 \/ ~ra.has /\ KindOf(rConfigAnim) = STR_NONE

\* C6's case: a rule without an animation entry under an animated global
\* default has been resolved.
C6_Witness ==
    /\ rStage = "resolved" /\ rRule # NoRule
    /\ ~rRule[1].animation.has
    /\ KindOf(rConfigAnim) = STR_RAINBOW
    /\ rOut.anim = [type |-> STR_RAINBOW, speed |-> 30]

NONE_RGB == -1
RED == 16711680
BLUE == 255
WHITE == 16777215
BLACK == 0

RgbR(c) == (c \div 65536) % 256
RgbG(c) == (c \div 256) % 256
RgbB(c) == c % 256
Rgb(r, g, b) == r * 65536 + g * 256 + b

Max(a, b) == IF a >= b THEN a ELSE b
Min(a, b) == IF a <= b THEN a ELSE b
Abs(a) == IF a >= 0 THEN a ELSE -a

\* math.sin of x thousandths of a radian (x >= 0), in thousandths: Bhaskara's
\* rational approximation 16h(pi-h) / (5 pi^2 - 4h(pi-h)) on each half period
SinMilli(x) ==
    LET y == x % 6283
        h == IF y < 3142 THEN y ELSE y - 3142
        p == h * (3142 - h)
        v == (16 * p) \div ((49360820 - 4 * p) \div 1000)
    IN  IF y < 3142 THEN Min(1000, v) ELSE -Min(1000, v)

\* Animation._get_state: the entry of key, created when missing
NewAnimState == [time |-> 0, current |-> RED, last_pass |-> -1]
GetState(state, key) == IF key \in DOMAIN state THEN state[key] ELSE NewAnimState

\* a clock that advances on every call
\* an _advance that takes the step off the elapsed time
AdvanceRewinds(st, speed, scale, pass_id) ==
    IF st.last_pass # pass_id
    THEN [st EXCEPT !.time = @ - Max(1, speed) * scale, !.last_pass = pass_id]
    ELSE st

AdvanceAlways(st, speed, scale, pass_id) ==
    [st EXCEPT !.time = @ + Max(1, speed) * scale, !.last_pass = pass_id]

\* Animation._advance; speed in tenths, scale in hundredths
Advance(st, speed, scale, pass_id) ==
    IF st.last_pass # pass_id
    THEN [st EXCEPT !.time = @ + Max(1, speed) * scale, !.last_pass = pass_id]
    ELSE st

\* an interpolation that starts from the far end
LerpChannelFromEnd(x, y, num, den) == y + (((x - y) * num) \div den)

\* int(x + (y - x) * num / den) for one channel
LerpChannel(x, y, num, den) == x + (((y - x) * num) \div den)

\* Animation._lerp_rgb with t = num / den
LerpRgb(a0, b0, num, den) ==
    LET a == IF a0 = NONE_RGB THEN RED ELSE a0
        b == IF b0 = NONE_RGB THEN BLUE ELSE b0
    IN  Rgb(LerpChannel(RgbR(a), RgbR(b), num, den),
            LerpChannel(RgbG(a), RgbG(b), num, den),
            LerpChannel(RgbB(a), RgbB(b), num, den))

\* Animation._lighten and _darken: amt clamped to [0, 1]
Lighten(rgb, num, den) == LerpRgb(rgb, WHITE, Max(0, Min(den, num)), den)
Darken(rgb, num, den) == LerpRgb(rgb, BLACK, Max(0, Min(den, num)), den)

\* a colour step that does not clamp the channel it moves
RainbowStepUnclamped(current, speed) ==
    LET r == RgbR(current)
        g == RgbG(current)
        b == RgbB(current)
        step == Max(1, (speed * 5) \div 10)
    IN  IF r = 255 /\ g < 255 /\ b = 0 THEN Rgb(r, g + step, b)
        ELSE IF g = 255 /\ r > 0 /\ b = 0 THEN Rgb(Max(0, r - step), g, b)
        ELSE IF g = 255 /\ b < 255 /\ r = 0 THEN Rgb(r, g, b + step)
        ELSE IF b = 255 /\ g > 0 /\ r = 0 THEN Rgb(r, Max(0, g - step), b)
        ELSE IF b = 255 /\ r < 255 /\ g = 0 THEN Rgb(r + step, g, b)
        ELSE IF r = 255 /\ b > 0 /\ g = 0 THEN Rgb(r, g, Max(0, b - step))
        ELSE Rgb(255, 0, 0)

\* the colour step of Animation._rainbow
RainbowStep(current, speed) ==
    LET r == RgbR(current)
        g == RgbG(current)
        b == RgbB(current)
        step == Max(1, (speed * 5) \div 10)
    IN  IF r = 255 /\ g < 255 /\ b = 0 THEN Rgb(r, Min(255, g + step), b)
        ELSE IF g = 255 /\ r > 0 /\ b = 0 THEN Rgb(Max(0, r - step), g, b)
        ELSE IF g = 255 /\ b < 255 /\ r = 0 THEN Rgb(r, g, Min(255, b + step))
        ELSE IF b = 255 /\ g > 0 /\ r = 0 THEN Rgb(r, Max(0, g - step), b)
        ELSE IF b = 255 /\ r < 255 /\ g = 0 THEN Rgb(Min(255, r + step), g, b)
        ELSE IF r = 255 /\ b > 0 /\ g = 0 THEN Rgb(r, g, Max(0, b - step))
        ELSE Rgb(255, 0, 0)

\* each animation returns the entry it leaves in Animation._state; the
\* colour returned is the entry's "current"
Rainbow(st0, speed, pass_id) ==
    LET st == Advance(st0, speed, 100, pass_id) IN
    [st EXCEPT !.current = RainbowStep(st.current, speed)]

Pulse(st0, speed, a, b, pass_id) ==
    LET st == Advance(st0, speed, 5, pass_id) IN
    [st EXCEPT !.current = LerpRgb(a, b, SinMilli(st.time) + 1000, 2000)]

Fade(st0, speed, a, b, pass_id) ==
    LET st == Advance(st0, speed, 2, pass_id) IN
    [st EXCEPT !.current = LerpRgb(a, b, SinMilli(st.time) + 1000, 2000)]

Breath(st0, speed, a, pass_id) ==
    LET st == Advance(st0, speed, 3, pass_id)
        base == IF a # NONE_RGB THEN a ELSE RED
    IN  [st EXCEPT !.current = Lighten(base, 35 * (1000 + SinMilli(st.time)), 200000)]

\* Animation._triangle_wave, in thousandths
TriangleWave(x) == 1000 - Abs((x % 2000) - 1000)

Tri(st0, speed, a, b, pass_id) ==
    LET st == Advance(st0, speed, 6, pass_id) IN
    [st EXCEPT !.current = LerpRgb(a, b, TriangleWave(st.time), 1000)]

Sparkle(st0, speed, a, pass_id) ==
    LET st == Advance(st0, speed, 5, pass_id)
        base == IF a # NONE_RGB THEN a ELSE RED
        w1 == 1000 + SinMilli((st.time * 17) \div 10)
        w2 == 1000 + SinMilli(((st.time * 23) \div 10) + 1234)
        \* jitter = j / 20000
        j == 6 * w1 + 4 * w2
        up == Lighten(base, 15 * j, 2000000)
        down == Darken(base, 15 * (20000 - j), 2000000)
    IN  [st EXCEPT !.current = LerpRgb(down, up, 1, 2)]

\* round(t * 2) / 2 for t = (sin + 1) / 2, halves rounded to even
Steps(st0, speed, a, b, pass_id) ==
    LET st == Advance(st0, speed, 4, pass_id)
        s == SinMilli(st.time)
        q2 == IF s <= -500 THEN 0 ELSE IF s >= 500 THEN 2 ELSE 1
    IN  [st EXCEPT !.current = LerpRgb(a, b, q2, 2)]

AnimKinds == {STR_RAINBOW, STR_PULSE, STR_FADE, STR_BREATH, STR_TRI, STR_SPARKLE, STR_STEPS}

\* Animation.color_for: [state, color]; color is NONE_RGB and the state is
\* untouched for "none" and for an unknown kind
ColorFor(state, key, anim_type0, speed, start_rgb, end_rgb, pass_id) ==
    LET anim_type == IF anim_type0 = <<>> THEN STR_NONE ELSE Lower(anim_type0)
        st0 == GetState(state, key)
        st == IF anim_type = STR_RAINBOW THEN Rainbow(st0, speed, pass_id)
              ELSE IF anim_type = STR_PULSE THEN Pulse(st0, speed, start_rgb, end_rgb, pass_id)
              ELSE IF anim_type = STR_FADE THEN Fade(st0, speed, start_rgb, end_rgb, pass_id)
              ELSE IF anim_type = STR_BREATH THEN Breath(st0, speed, start_rgb, pass_id)
              ELSE IF anim_type = STR_TRI THEN Tri(st0, speed, start_rgb, end_rgb, pass_id)
              ELSE IF anim_type = STR_SPARKLE THEN Sparkle(st0, speed, start_rgb, pass_id)
              ELSE Steps(st0, speed, start_rgb, end_rgb, pass_id)
    IN  IF anim_type \notin AnimKinds
        THEN [state |-> state, color |-> NONE_RGB]
        ELSE [state |-> [k \in DOMAIN state \cup {key} |-> IF k = key THEN st ELSE state[k]],
              color |-> st.current]


(***************************************************************************)
(* Configuration (model.py, class Config and ensure_single_global_on_top)  *)
(***************************************************************************)
DEFAULT_GLOBAL_RULE ==
    [match |-> MATCH_GLOBAL,
     active_border_color |-> <<"#","c","6","a","0","f","6">>,
     inactive_border_color |-> <<"#","f","f","f","f","f","f">>,
     animation |-> ANIM_NONE,
     contains |-> <<>>]

RemoveAt(q, i) == SubSeq(q, 1, i - 1) \o SubSeq(q, i + 1, Len(q))
GlobalIndexes(rules) == {i \in DOMAIN rules : IsGlobalRule(rules[i])}
SetMin(S) == CHOOSE x \in S : \A y \in S : x <= y

\* a normalisation that leaves the list as it is
EnsureNothing(rules) == rules

\* ensure_single_global_on_top
EnsureSingleGlobalOnTop(rules) ==
    LET globals_idx == GlobalIndexes(rules) IN
    IF globals_idx = {}
    THEN <<DEFAULT_GLOBAL_RULE>> \o rules
    ELSE LET first == SetMin(globals_idx)
             kept == [i \in 1..first |-> rules[i]]
                       \o SelectSeq(SubSeq(rules, first + 1, Len(rules)),
                                    LAMBDA r : ~IsGlobalRule(r))
         IN  <<kept[first]>> \o RemoveAt(kept, first)

\* Config._load on the parsed file [animation, window_rules]; a missing or
\* unreadable file is Config._default()
ConfigLoad(file) ==
    LET animation == IF file.animation.has THEN file.animation ELSE ANIM_NONE
        rules == SelectSeq(file.window_rules, LAMBDA r : IsGlobalRule(r) \/ IsProcessRule(r))
        globals_idx == GlobalIndexes(rules)
    IN  IF globals_idx = {}
        THEN [animation |-> animation, window_rules |-> <<DEFAULT_GLOBAL_RULE>> \o rules]
        ELSE LET g_idx == SetMin(globals_idx)
                 g == [rules[g_idx] EXCEPT
                          !.animation = IF @.has THEN @ ELSE ANIM_NONE,
                          !.contains = <<>>]
             IN  [animation |-> animation,
                  window_rules |-> <<g>> \o RemoveAt(rules, g_idx)]


(***************************************************************************)
(* DWM application with differential updates (model.py)                    *)
(***************************************************************************)
\* a dict: a function on the keys it holds
EmptyDict == <<>>
Put(d, k, v) == [x \in DOMAIN d \cup {k} |-> IF x = k THEN v ELSE d[x]]

\* what the native call does: "ok" sets the border, "fails" returns a
\* failure code and sets nothing, "raises" raises
NativeOutcomes == {"ok", "fails", "raises"}

\* a writer that keeps no record of what it wrote
SetDwmBorderColorUnrecorded(st, hwnd, color, outcome) ==
    IF color \in Sentinels THEN st
    ELSE [st EXCEPT !.calls = Put(@, hwnd, color),
                    !.border = IF outcome = "ok" THEN Put(@, hwnd, color) ELSE @]

\* a writer that records the colour before the native primitive is invoked
SetDwmBorderColorRecordsFirst(st, hwnd, color, outcome) ==
    IF color \in Sentinels THEN st
    ELSE IF hwnd \in DOMAIN st.last /\ st.last[hwnd] = color THEN st
    ELSE [st EXCEPT !.calls = Put(@, hwnd, color),
                    !.last = Put(@, hwnd, color),
                    !.border = IF outcome = "ok" THEN Put(@, hwnd, color) ELSE @]

\* a writer that hands every colour it is given to the native primitive
SetDwmBorderColorAnyColor(st, hwnd, color, outcome) ==
    IF hwnd \in DOMAIN st.last /\ st.last[hwnd] = color THEN st
    ELSE IF outcome = "raises" THEN [st EXCEPT !.calls = Put(@, hwnd, color)]
    ELSE [st EXCEPT !.calls = Put(@, hwnd, color),
                    !.last = Put(@, hwnd, color),
                    !.border = IF outcome = "ok" THEN Put(@, hwnd, color) ELSE @]

\* set_dwm_border_color on [anim, last, border, frames, calls]
SetDwmBorderColor(st, hwnd, color, outcome) ==
    IF color \in Sentinels THEN st
    ELSE IF hwnd \in DOMAIN st.last /\ st.last[hwnd] = color THEN st
    ELSE IF outcome = "raises" THEN [st EXCEPT !.calls = Put(@, hwnd, color)]
    ELSE [st EXCEPT !.calls = Put(@, hwnd, color),
                    !.last = Put(@, hwnd, color),
                    !.border = IF outcome = "ok" THEN Put(@, hwnd, color) ELSE @]

\* _hex_to_rgb_int of apply_colors_once.cb
HexToRgbInt(s0) ==
    LET s == normalize_hex(s0) IN
    IF s \in {STR_DEFAULT, STR_NONE} THEN NONE_RGB
    ELSE IF s = <<>> \/ Head(s) # "#" \/ Len(s) # 7 THEN NONE_RGB
    ELSE IF \E i \in 2..7 : ~IsHexLower(LowerChar(s[i])) THEN NONE_RGB
    ELSE Rgb(HexByte(s, 2), HexByte(s, 4), HexByte(s, 6))

GLOBAL_KEY == <<"G","L","O","B","A","L">>
\* f'GLOBAL|{type}' or f'{process_name}|{type}'
AnimKey(is_global_rule, process_name, type) ==
    (IF is_global_rule THEN GLOBAL_KEY ELSE process_name) \o <<"|">> \o type

\* RGB -> COLORREF (BGR)
RgbToColorref(c) == <<0, RgbB(c), RgbG(c), RgbR(c)>>

\* the rule of a window: pick_rule, else the first Global rule, else None
RuleFor(config, process_name) ==
    LET rules == config.window_rules
        best == pick_rule(rules, process_name)
    IN  IF best # 0 THEN <<rules[best]>>
        ELSE IF GlobalIndexes(rules) # {} THEN <<rules[SetMin(GlobalIndexes(rules))]>>
        ELSE NoRule

\* cb for a window resolved to an animation: the frame of its key is asked
\* of color_for and, when there is one, handed to the writer
CbAnimated(st, rule, res, hwnd, w, pid, outcome) ==
    LET is_global_rule == rule # NoRule /\ IsGlobalRule(rule[1])
        key == AnimKey(is_global_rule, w.process_name, res.anim.type)
        a_rgb == HexToRgbInt(IF rule = NoRule THEN <<>> ELSE rule[1].active_border_color)
        i_rgb == HexToRgbInt(IF rule = NoRule THEN <<>> ELSE rule[1].inactive_border_color)
        cf == ColorFor(st.anim, key, res.anim.type, res.anim.speed, a_rgb, i_rgb, pid)
        st1 == [st EXCEPT !.anim = cf.state]
    IN  IF cf.color # NONE_RGB
        THEN SetDwmBorderColor(
                 [st1 EXCEPT !.frames = Put(@, hwnd, [key |-> key, color |-> cf.color])],
                 hwnd, RgbToColorref(cf.color), outcome)
        ELSE st1

\* cb for a window resolved to static colours
CbStatic(st, res, hwnd, fgw, outcome) ==
    IF res.active = COLOR_INVALID \/ res.inactive = COLOR_INVALID THEN st
    ELSE SetDwmBorderColor(st, hwnd, IF hwnd = fgw THEN res.active ELSE res.inactive, outcome)

\* a cb that gives the foreground window its static colour whatever its
\* animation
CbApplyByFocus(st, rule, res, hwnd, w, fgw, pid, outcome) ==
    IF res.anim.type # STR_NONE /\ hwnd # fgw
    THEN CbAnimated(st, rule, res, hwnd, w, pid, outcome)
    ELSE CbStatic(st, res, hwnd, fgw, outcome)

\* cb once the window is resolved and not skipped
CbApply(st, rule, res, hwnd, w, fgw, pid, outcome) ==
    IF res.anim.type # STR_NONE
    THEN CbAnimated(st, rule, res, hwnd, w, pid, outcome)
    ELSE CbStatic(st, res, hwnd, fgw, outcome)

\* a cb that does the static work in every pass
CbEveryWindow(st, config, hwnd, w, fgw, animated_only, pid, outcome) ==
    IF ~w.visible \/ w.tool \/ Strip(w.title) = <<>> THEN st
    ELSE CbApply(st, RuleFor(config, w.process_name),
                 resolve_colors(RuleFor(config, w.process_name),
                                GlobalAnimDefaults(config.animation)),
                 hwnd, w, fgw, pid, outcome)

\* apply_colors_once.cb for one enumerated window
Cb(st, config, hwnd, w, fgw, animated_only, pid, outcome) ==
    IF ~w.visible \/ w.tool \/ Strip(w.title) = <<>> THEN st
    ELSE
    LET rule == RuleFor(config, w.process_name)
        res == resolve_colors(rule, GlobalAnimDefaults(config.animation))
    IN  IF animated_only /\ res.anim.type = STR_NONE THEN st
        ELSE CbApply(st, rule, res, hwnd, w, fgw, pid, outcome)

(***************************************************************************)
(* The update passes on a desktop: Spec                                    *)
(***************************************************************************)
MaxHandles == 2
MaxPasses == 2
Handles == 1..MaxHandles

Window(process_name, title, visible, tool) ==
    [process_name |-> process_name, title |-> title, visible |-> visible, tool |-> tool]
PROC_AB == <<"a","b">>
PROC_C == <<"c">>
WindowSample ==
    { Window(PROC_AB, <<"t">>, TRUE, FALSE),
      Window(PROC_C, <<"t">>, TRUE, FALSE),
      Window(PROC_AB, <<" ">>, TRUE, FALSE),
      Window(PROC_AB, <<"t">>, FALSE, FALSE),
      Window(PROC_C, <<"t">>, TRUE, TRUE) }

NOT_A_COLOR == <<"n","o","t","-","a","-","c","o","l","o","r">>
HEX_RED == <<"#","F","F","0","0","0","0">>
HEX_BLUE == <<"#","0","0","0","0","F","F">>
GlobalAnimated(type, speed) ==
    [animation |-> NoAnimDict,
     window_rules |-> <<Rule(MATCH_GLOBAL, <<>>, HEX_RED, HEX_BLUE, Anim(type, speed))>>]
\* the parsed config.json files the application is started on
ConfigFileSample ==
    { [animation |-> NoAnimDict, window_rules |-> <<>>],
      GlobalAnimated(STR_RAINBOW, 10),
      [animation |-> ANIM_NONE,
       window_rules |-> << Rule(MATCH_PROCESS, PROC_AB, HEX_RED, HEX_BLUE, Anim(STR_RAINBOW, 25)),
                           Rule(MATCH_GLOBAL, <<>>, <<"#","c","6","a","0","f","6">>,
                                <<"#","f","f","f","f","f","f">>, NoAnimDict) >>],
      [animation |-> Anim(STR_TRI, 10),
       window_rules |-> << Rule(MATCH_GLOBAL, <<>>, STR_DEFAULT, <<"0","0","f","f","0","0">>, ANIM_NONE),
                           Rule(MATCH_PROCESS, <<"C">>, HEX_RED, HEX_BLUE, NoAnimDict) >>],
      [animation |-> ANIM_NONE,
       window_rules |-> << Rule(MATCH_GLOBAL, <<>>, NOT_A_COLOR, HEX_BLUE, ANIM_NONE) >>] }

\* AppController.__init__: Config() loads the file, _emit_rules() runs
\* ensure_single_global_on_top
Init ==
    /\ \E file \in ConfigFileSample :
          config_data = [ConfigLoad(file) EXCEPT !.window_rules = EnsureSingleGlobalOnTop(@)]
    /\ windows = [h \in Handles |-> <<>>]
    /\ fg = 0
    /\ anim_state = EmptyDict
    /\ _pass_id = 0
    /\ last_colors = EmptyDict
    /\ border = [h \in Handles |-> DWMWA_COLOR_DEFAULT]
    /\ frames = EmptyDict
    /\ native_calls = EmptyDict
    /\ pass_queue = <<>>
    /\ pass_mode = "idle"
    /\ CodecIdle
    /\ PickIdle
    /\ ResolveIdle
    /\ PhaseIdle
    /\ RestIdle

Live == {h \in Handles : windows[h] # <<>>}
\* the orders in which EnumWindows may enumerate the live windows
Orders ==
    {q \in SeqsUpTo(Live, Cardinality(Live)) :
        Len(q) = Cardinality(Live) /\ \A i, j \in DOMAIN q : q[i] = q[j] => i = j}

\* AppController._has_anim: r.get("animation", {}).get("type", "none") != "none"
HasAnimIn(rules) ==
    \E i \in DOMAIN rules :
        LET a == rules[i].animation IN
        a.has /\ a.type # <<>> /\ a.type # STR_NONE
HasAnim == HasAnimIn(config_data.window_rules)

\* a pass that starts under the id of the pass before
BeginPassSameId(mode) ==
    /\ pass_mode = "idle"
    /\ _pass_id < MaxPasses
    /\ pass_mode' = mode
    /\ pass_queue' \in Orders
    /\ frames' = EmptyDict
    /\ native_calls' = EmptyDict
    /\ UNCHANGED <<config_data, windows, fg, anim_state, _pass_id, last_colors, border>>
    /\ UNCHANGED <<codecVars, pickVars, resolveVars, phaseVars,
                 advanceVars, writerVars, controllerVars, pidVars, engineVars, opVars>>

\* apply_colors_once up to the call of EnumWindows: the pass counter is
\* incremented and the windows are handed to cb in some order
BeginPass(mode) ==
    /\ pass_mode = "idle"
    /\ _pass_id < MaxPasses
    /\ _pass_id' = _pass_id + 1
    /\ pass_mode' = mode
    /\ pass_queue' \in Orders
    /\ frames' = EmptyDict
    /\ native_calls' = EmptyDict
    /\ UNCHANGED <<config_data, windows, fg, anim_state, last_colors, border>>
    /\ UNCHANGED <<codecVars, pickVars, resolveVars, phaseVars,
                 advanceVars, writerVars, controllerVars, pidVars, engineVars, opVars>>

\* AppController._tick
Tick == BeginPass("full")

\* AppController._tick_anim; animTimer runs while a rule is animated
TickAnim == HasAnim /\ BeginPass("animated_only")

\* cb runs for the next window of the enumeration and returns; the native
\* write, when cb reaches it, does one of outcomes
CbStep(outcomes) ==
    /\ pass_mode # "idle"
    /\ pass_queue # <<>>
    /\ \E outcome \in outcomes :
          \E st \in {Cb([anim |-> anim_state, last |-> last_colors, border |-> border,
                         frames |-> frames, calls |-> native_calls],
                        config_data, Head(pass_queue), windows[Head(pass_queue)][1], fg,
                        pass_mode = "animated_only", _pass_id, outcome)} :
              /\ anim_state' = st.anim
              /\ last_colors' = st.last
              /\ border' = st.border
              /\ frames' = st.frames
              /\ native_calls' = st.calls
    /\ pass_queue' = Tail(pass_queue)
    /\ UNCHANGED <<config_data, windows, fg, _pass_id, pass_mode>>
    /\ UNCHANGED <<codecVars, pickVars, resolveVars, phaseVars,
                 advanceVars, writerVars, controllerVars, pidVars, engineVars, opVars>>

CbReturns == CbStep(NativeOutcomes)

\* a raising query that takes the main timer down with the pass
CbRaisesStopsTimer ==
    /\ pass_mode # "idle"
    /\ pass_queue # <<>>
    /\ pass_queue' = <<>>
    /\ pass_mode' = "idle"
    /\ timer_active' = FALSE
    /\ UNCHANGED <<config_data, windows, fg, anim_state, _pass_id, last_colors, border, frames,
                   native_calls>>
    /\ UNCHANGED <<cfg_file, service_enabled, anim_timer_active>>
    /\ UNCHANGED <<codecVars, pickVars, resolveVars, phaseVars,
                 advanceVars, writerVars, pidVars, engineVars, opVars>>

\* a window query of cb raises for the next window: the exception leaves
\* EnumWindows and apply_colors_once and is swallowed by the tick
CbRaises ==
    /\ pass_mode # "idle"
    /\ pass_queue # <<>>
    /\ pass_queue' = <<>>
    /\ pass_mode' = "idle"
    /\ UNCHANGED <<config_data, windows, fg, anim_state, _pass_id, last_colors, border, frames,
                   native_calls>>
    /\ UNCHANGED <<codecVars, pickVars, resolveVars, phaseVars,
                 advanceVars, writerVars, controllerVars, pidVars, engineVars, opVars>>

\* EnumWindows returns
EndPass ==
    /\ pass_mode # "idle"
    /\ pass_queue = <<>>
    /\ pass_mode' = "idle"
    /\ UNCHANGED <<config_data, windows, fg, anim_state, _pass_id, last_colors, border, frames,
                   pass_queue, native_calls>>
    /\ UNCHANGED <<codecVars, pickVars, resolveVars, phaseVars,
                 advanceVars, writerVars, controllerVars, pidVars, engineVars, opVars>>

\* a window appears under a free handle, with the system's own border
OpenWindow ==
    /\ pass_mode = "idle"
    /\ \E h \in Handles, w \in WindowSample :
          /\ windows[h] = <<>>
          /\ windows' = [windows EXCEPT ![h] = <<w>>]
          /\ border' = [border EXCEPT ![h] = DWMWA_COLOR_DEFAULT]
    /\ UNCHANGED <<config_data, fg, anim_state, _pass_id, last_colors, frames, pass_queue, pass_mode,
                   native_calls>>
    /\ UNCHANGED <<codecVars, pickVars, resolveVars, phaseVars,
                 advanceVars, writerVars, controllerVars, pidVars, engineVars, opVars>>

\* a window is destroyed; the foreground window, if it was that one, is none
CloseWindow ==
    /\ pass_mode = "idle"
    /\ \E h \in Live :
          /\ windows' = [windows EXCEPT ![h] = <<>>]
          /\ fg' = IF fg = h THEN 0 ELSE fg
    /\ UNCHANGED <<config_data, anim_state, _pass_id, last_colors, border, frames, pass_queue,
                   pass_mode, native_calls>>
    /\ UNCHANGED <<codecVars, pickVars, resolveVars, phaseVars,
                 advanceVars, writerVars, controllerVars, pidVars, engineVars, opVars>>

\* the user focuses another window
SetForeground ==
    /\ pass_mode = "idle"
    /\ \E h \in Live : fg # h /\ fg' = h
    /\ UNCHANGED <<config_data, windows, anim_state, _pass_id, last_colors, border, frames,
                   pass_queue, pass_mode, native_calls>>
    /\ UNCHANGED <<codecVars, pickVars, resolveVars, phaseVars,
                 advanceVars, writerVars, controllerVars, pidVars, engineVars, opVars>>

Next ==
    \/ Tick \/ TickAnim \/ CbReturns \/ CbRaises \/ EndPass
    \/ OpenWindow \/ CloseWindow \/ SetForeground

Spec == Init /\ [][Next]_vars

\* the same desktop when no native call fails: every border write succeeds
\* and no window query raises
CbWrites == CbStep({"ok"})

NextReliable ==
    \/ Tick \/ TickAnim \/ CbWrites \/ EndPass
    \/ OpenWindow \/ CloseWindow \/ SetForeground

SpecReliable == Init /\ [][NextReliable]_vars

\* the windows a pass does not skip: visible, not a tool window, titled
Eligible(h) ==
    /\ h \in Live
    /\ windows[h][1].visible
    /\ ~windows[h][1].tool
    /\ Strip(windows[h][1].title) # <<>>

\* what the rules resolve a window to
Resolution(h) ==
    resolve_colors(RuleFor(config_data, windows[h][1].process_name),
                   GlobalAnimDefaults(config_data.animation))

StaticExplicit(h) ==
    /\ Eligible(h)
    /\ IsStatic(Resolution(h))
    /\ Resolution(h).active \notin Sentinels
    /\ Resolution(h).inactive \notin Sentinels

\* the colour of a statically coloured window: active in the foreground,
\* inactive otherwise
StaticTarget(h) == IF h = fg THEN Resolution(h).active ELSE Resolution(h).inactive

\* a full pass returns from EnumWindows
FullPassEnds == pass_mode = "full" /\ pass_queue = <<>> /\ pass_mode' = "idle"


\* C1: within one pass, any two windows that resolve to the same animation
\* key are handed the same animation colour.
C1_SameKeySameColor ==
    \A h1, h2 \in DOMAIN frames :
        frames[h1].key = frames[h2].key => frames[h1].color = frames[h2].color

(***************************************************************************)
(* Two runs that differ only in how many windows share a key: SpecPhase    *)
(***************************************************************************)
MaxSharing == 2
MaxPhasePasses == 3

PhaseSpeeds == {1, 10, 25}
PhaseRuleSample ==
    {Rule(MATCH_GLOBAL, <<>>, a, HEX_BLUE, Anim(k, sp)) :
        a \in {HEX_RED, <<"#","1","0","8","0","f","0">>}, k \in AnimKinds, sp \in PhaseSpeeds}

\* what the cb calls of one pass do to Animation._state when n windows
\* resolve to the animated rule: n calls of color_for under one pass_id
RECURSIVE SharedCalls(_, _, _, _)
SharedCalls(state, rule, pid, n) ==
    IF n = 0 THEN state
    ELSE SharedCalls(
             ColorFor(state, AnimKey(TRUE, <<>>, AnimType(rule.animation)),
                      AnimType(rule.animation), AnimSpeed(rule.animation),
                      HexToRgbInt(rule.active_border_color),
                      HexToRgbInt(rule.inactive_border_color), pid).state,
             rule, pid, n - 1)

InitPhase ==
    /\ phRule \in PhaseRuleSample
    /\ phPasses = 0
    /\ phA = EmptyDict
    /\ phB = EmptyDict
    /\ CodecIdle
    /\ PickIdle
    /\ ResolveIdle
    /\ PassIdle
    /\ RestIdle

\* one pass in each run: nA windows share the key in the first run, nB in
\* the second
PhasePass ==
    /\ phPasses < MaxPhasePasses
    /\ phPasses' = phPasses + 1
    /\ \E nA, nB \in 1..MaxSharing :
          /\ phA' = SharedCalls(phA, phRule, phPasses + 1, nA)
          /\ phB' = SharedCalls(phB, phRule, phPasses + 1, nB)
    /\ UNCHANGED phRule
    /\ UNCHANGED <<codecVars, pickVars, resolveVars, passVars,
                 advanceVars, writerVars, controllerVars, pidVars, engineVars, opVars>>

NextPhase == PhasePass

SpecPhase == InitPhase /\ [][NextPhase]_vars

PhaseKey == AnimKey(TRUE, <<>>, AnimType(phRule.animation))

\* C2: the state of a key (elapsed time and current colour) after N passes
\* does not depend on how many windows referenced the key in each pass: the
\* two runs hold the same state after the same number of passes.
C2_PhaseIndependentOfSharing ==
    phPasses > 0
        => /\ phA[PhaseKey].time = phB[PhaseKey].time
           /\ phA[PhaseKey].current = phB[PhaseKey].current

(***************************************************************************)
(* Animation._advance on the state of one key: SpecAdvance                 *)
(***************************************************************************)
MaxAdvPasses == 3
MaxAdvCalls == 4

\* speeds in tenths (0 and 0.1 are at or under the floor), and the time
\* scales the seven animations pass, in hundredths
AdvSpeeds == {0, 1, 5, 10, 25}
AdvScales == {2, 3, 4, 5, 6, 100}

InitAdvance ==
    /\ advSt = NewAnimState
    /\ advSpeed \in AdvSpeeds
    /\ advScale \in AdvScales
    /\ advPid = 0
    /\ advSeen = <<>>
    /\ CodecIdle
    /\ PickIdle
    /\ ResolveIdle
    /\ PassIdle
    /\ PhaseIdle
    /\ WriterIdle /\ ControllerIdle /\ PidCacheIdle /\ EngineIdle /\ OpIdle

\* apply_colors_once starts a pass: the counter is incremented
AdvNewPass ==
    /\ advPid < MaxAdvPasses
    /\ advPid' = advPid + 1
    /\ UNCHANGED <<advSt, advSpeed, advScale, advSeen>>
    /\ UNCHANGED <<codecVars, pickVars, resolveVars, passVars, phaseVars,
                   writerVars, controllerVars, pidVars, engineVars, opVars>>

\* a window of the running pass reaches _advance with the pass's id
AdvCall ==
    /\ advPid >= 1
    /\ Len(advSeen) < MaxAdvCalls
    /\ advSt' = Advance(advSt, advSpeed, advScale, advPid)
    /\ advSeen' = Append(advSeen, advPid)
    /\ UNCHANGED <<advSpeed, advScale, advPid>>
    /\ UNCHANGED <<codecVars, pickVars, resolveVars, passVars, phaseVars,
                   writerVars, controllerVars, pidVars, engineVars, opVars>>

NextAdvance == AdvNewPass \/ AdvCall

SpecAdvance == InitAdvance /\ [][NextAdvance]_vars

\* the pass ids the calls made so far carried
AdvPassIds == {advSeen[i] : i \in DOMAIN advSeen}

\* C11: however many calls of advance carry one pass id, they add
\* max(0.1, speed) * time_scale to the elapsed time once; the calls of each
\* further pass id add it once more.
C11_AdvanceOncePerPass ==
    advSt.time = Cardinality(AdvPassIds) * (IF advSpeed < 1 THEN 1 ELSE advSpeed) * advScale

\* three calls under one pass id, then one under the next
C11_Witness ==
    /\ Len(advSeen) = 4
    /\ advSeen[1] = advSeen[3]
    /\ advSeen[4] # advSeen[1]
    /\ advSpeed = 25
    /\ advSt.time = 2 * 25 * advScale

(***************************************************************************)
(* set_dwm_border_color called twice in a row: SpecWriter                  *)
(***************************************************************************)
\* colours handed to the writer: the three sentinels and two COLORREFs
WriterRgbSample == {<<0, 255, 0, 0>>, <<0, 246, 160, 198>>}
WriterColorSample == Sentinels \cup WriterRgbSample

\* _last_colors as earlier calls can have left it: only non-sentinel
\* colours are ever recorded
WriterCaches ==
    UNION {[D -> WriterRgbSample] : D \in SUBSET Handles}

InitWriter ==
    /\ wHwnd \in Handles
    /\ wColor \in WriterColorSample
    /\ wLast0 \in WriterCaches
    /\ wLast = wLast0
    /\ wLog = <<>>
    /\ CodecIdle
    /\ PickIdle
    /\ ResolveIdle
    /\ PassIdle
    /\ PhaseIdle
    /\ AdvanceIdle /\ ControllerIdle /\ PidCacheIdle /\ EngineIdle /\ OpIdle

\* set_dwm_border_color(wHwnd, wColor); the log gets what the native
\* primitive did, or "skipped" when the call returned without invoking it
WriterSet ==
    /\ Len(wLog) < 2
    /\ \E outcome \in NativeOutcomes :
          LET st == SetDwmBorderColor(
                        [anim |-> EmptyDict, last |-> wLast, border |-> EmptyDict,
                         frames |-> EmptyDict, calls |-> EmptyDict],
                        wHwnd, wColor, outcome)
          IN  /\ wLast' = st.last
              /\ wLog' = Append(wLog, IF wHwnd \in DOMAIN st.calls THEN outcome ELSE "skipped")
    /\ UNCHANGED <<wLast0, wHwnd, wColor>>
    /\ UNCHANGED <<codecVars, pickVars, resolveVars, passVars, phaseVars,
                   advanceVars, controllerVars, pidVars, engineVars, opVars>>

NextWriter == WriterSet

SpecWriter == InitWriter /\ [][NextWriter]_vars

\* how many of the calls made so far invoked the native primitive
WriterInvocations == Cardinality({i \in DOMAIN wLog : wLog[i] # "skipped"})
WriterRecorded0 == wHwnd \in DOMAIN wLast0 /\ wLast0[wHwnd] = wColor

\* C12 (as stated): for any handle h and colour c, two calls set(h, c) in a
\* row invoke the native write primitive exactly once.
C12_TwiceInvokesOnce ==
    Len(wLog) = 2 => WriterInvocations = 1

\* C12 (amended): two calls set(h, c) in a row do not invoke the native
\* primitive at all when c is a sentinel or is the colour recorded for h;
\* otherwise they invoke it once when the first invocation returns (with
\* success or with a failure code) and twice when the first invocation raises.
C12_TwiceInvokesByCase ==
    Len(wLog) = 2 =>
        IF wColor \in Sentinels \/ WriterRecorded0 THEN WriterInvocations = 0
        ELSE IF wLog[1] = "raises" THEN WriterInvocations = 2
        ELSE WriterInvocations = 1

\* a colour not yet recorded is written by the first call and skipped by the
\* second
C12_Witness ==
    /\ wLog = <<"ok", "skipped">>
    /\ wColor \notin Sentinels
    /\ wHwnd \in DOMAIN wLast0
    /\ wLast0[wHwnd] # wColor

(***************************************************************************)
(* Static colours after a full pass                                        *)
(***************************************************************************)
\* C13: when a full pass has run, every visible titled window resolved to
\* Static with explicit RGB colours shows the rule's active colour if it is
\* the foreground window and the rule's inactive colour otherwise (so a
\* change of foreground is followed up by the next full pass).
C13_StaticFollowsForeground ==
    [][FullPassEnds => \A h \in Handles : StaticExplicit(h) => border'[h] = StaticTarget(h)]_vars

(***************************************************************************)
(* Malformed colour strings                                                *)
(***************************************************************************)
\* a string that, trimmed and lowercased, is neither "default" nor "none"
\* nor six hexadecimal digits after an optional "#"
Malformed(s) ==
    LET v == Lower(Strip(s)) IN
    v \notin {STR_DEFAULT, STR_NONE} /\ ~IsValidHex6(v)

\* the colour strings of the configured rules
ConfiguredColors ==
    {config_data.window_rules[i].active_border_color : i \in DOMAIN config_data.window_rules}
        \cup {config_data.window_rules[i].inactive_border_color :
                  i \in DOMAIN config_data.window_rules}

\* the colour field cb reads for a statically coloured window
StaticField(h) ==
    LET rule == RuleFor(config_data, windows[h][1].process_name) IN
    IF h = fg THEN rule[1].active_border_color ELSE rule[1].inactive_border_color

MalformedTarget(h) ==
    /\ Eligible(h)
    /\ IsStatic(Resolution(h))
    /\ RuleFor(config_data, windows[h][1].process_name) # NoRule
    /\ Malformed(StaticField(h))

\* C14: a malformed colour string parses to Invalid; the resolver returns
\* Default in its place, never Invalid, as active or inactive colour; and a
\* pass does not invoke the native write primitive for a window whose
\* colour is the malformed one.
C14_MalformedNeverWritten ==
    [][/\ \A s \in ConfiguredColors : Malformed(s) => hex_to_colorref(s) = COLOR_INVALID
       /\ \A i \in DOMAIN config_data.window_rules :
             LET res == resolve_colors(<<config_data.window_rules[i]>>,
                                       GlobalAnimDefaults(config_data.animation))
                 r == config_data.window_rules[i]
             IN  /\ res.active # COLOR_INVALID
                 /\ res.inactive # COLOR_INVALID
                 /\ (IsStatic(res) /\ Malformed(r.active_border_color))
                        => res.active = DWMWA_COLOR_DEFAULT
                 /\ (IsStatic(res) /\ Malformed(r.inactive_border_color))
                        => res.inactive = DWMWA_COLOR_DEFAULT
       /\ (pass_mode # "idle" /\ pass_queue # <<>> /\ MalformedTarget(Head(pass_queue)))
             => Head(pass_queue) \notin DOMAIN native_calls'
      ]_vars

\* a full pass has gone over a foreground window whose active colour is
\* malformed without a native call, and has written another window
C14_Witness ==
    /\ pass_mode = "full"
    /\ pass_queue = <<>>
    /\ \E h, h2 \in Handles :
          /\ MalformedTarget(h)
          /\ h \notin DOMAIN native_calls
          /\ h2 \in DOMAIN native_calls

(***************************************************************************)
(* A window matched and resolved, as cb does it: SpecSelect                *)
(***************************************************************************)
MaxSelectRules == 2

CODE_EXE == <<"c","o","d","e",".","e","x","e">>
SelectProcNames == {<<"C","o","d","e",".","e","x","e">>, CODE_EXE, <<"c","m","d">>}
SelectRuleSample ==
    { Rule(MATCH_GLOBAL, <<>>, <<"#","c","6","a","0","f","6">>, <<"#","f","f","f","f","f","f">>, ANIM_NONE),
      Rule(MATCH_GLOBAL, <<>>, HEX_RED, HEX_BLUE, Anim(<<"P","u","l","s","e">>, 0)),
      Rule(MATCH_PROCESS, CODE_EXE, HEX_RED, HEX_BLUE, Anim(STR_RAINBOW, 25)),
      Rule(MATCH_PROCESS, CODE_EXE, STR_DEFAULT, NOT_A_COLOR, Anim(STR_RAINBOW, 25)),
      Rule(MATCH_PROCESS, <<"C","O","D","E">>, <<>>, STR_NONE, Anim(<<"b","o","g","u","s">>, 5)),
      Rule(MATCH_PROCESS, <<"c","m","d">>, HEX_RED, HEX_BLUE, NoAnimDict),
      Rule(MATCH_PROCESS, <<"C","m">>, HEX_BLUE, HEX_RED, Anim(<<"N","o","n","e">>, 10)) }
SelectConfigAnimSample == {NoAnimDict, ANIM_NONE, Anim(STR_TRI, 30)}

InitSelect ==
    /\ pRules \in SeqsUpTo(SelectRuleSample, MaxSelectRules)
    /\ pProc \in SelectProcNames
    /\ pBest = 0
    /\ pStage = "input"
    /\ rRule = NoRule
    /\ rConfigAnim \in SelectConfigAnimSample
    /\ rOut = <<>>
    /\ rStage = "wait"
    /\ CodecIdle
    /\ PassIdle
    /\ PhaseIdle
    /\ RestIdle

\* cb after pick_rule: the fallback to the first Global rule and
\* resolve_colors(rule, {"animation": global_anim_defaults})
ResolvePicked ==
    /\ pStage = "picked"
    /\ rStage = "wait"
    /\ LET rule == RuleFor([animation |-> rConfigAnim, window_rules |-> pRules], pProc) IN
          /\ rRule' = rule
          /\ rOut' = resolve_colors(rule, GlobalAnimDefaults(rConfigAnim))
    /\ rStage' = "resolved"
    /\ UNCHANGED rConfigAnim
    /\ UNCHANGED <<codecVars, pickVars, passVars, phaseVars,
                   advanceVars, writerVars, controllerVars, pidVars, engineVars, opVars>>

NextSelect == PickApply \/ ResolvePicked

SpecSelect == InitSelect /\ [][NextSelect]_vars

\* contains is in the process name when case is ignored
ContainsIgnoringCase(r, process_name) == IsSubstring(Lower(r.contains), Lower(process_name))

\* C15: a matched rule whose animation kind is not None resolves to Animated
\* with that rule's kind and speed, whatever its colour fields and the
\* global default are; and contains is matched against the process name
\* without regard to case: a Process rule is selected exactly when some
\* Process rule's contains is in the process name ignoring case, and the
\* selected one is such a rule.
C15_AnimationWinsCaseInsensitive ==
    /\ (rStage = "resolved" /\ rRule # NoRule /\ KindOf(rRule[1].animation) # STR_NONE)
          => AnimatedWith(rOut, rRule[1].animation)
    /\ pStage = "picked"
          => /\ (\E i \in DOMAIN pRules :
                    IsProcessRule(pRules[i]) /\ ContainsIgnoringCase(pRules[i], pProc))
                 <=> (pBest # 0 /\ IsProcessRule(pRules[pBest]))
             /\ (pBest # 0 /\ IsProcessRule(pRules[pBest]))
                    => ContainsIgnoringCase(pRules[pBest], pProc)

\* contains "code.exe" has matched the process "Code.exe" and the rule's
\* rainbow is returned over a global default of another kind
C15_Witness ==
    /\ rStage = "resolved"
    /\ pProc = <<"C","o","d","e",".","e","x","e">>
    /\ rRule # NoRule
    /\ rRule[1].contains = CODE_EXE
    /\ rRule[1].inactive_border_color = NOT_A_COLOR
    /\ rConfigAnim = Anim(STR_TRI, 30)
    /\ rOut.anim = [type |-> STR_RAINBOW, speed |-> 25]

(***************************************************************************)
(* The controller: rules, persistence, service and timers (controller.py): *)
(* SpecController.  The desktop has no windows; a pass only counts.        *)
(***************************************************************************)
MaxCtlRules == 3

CtlFile(enabled, animation, rules) ==
    [service_enabled |-> enabled, animation |-> animation, window_rules |-> rules]
CTL_PROCESS_AB == Rule(MATCH_PROCESS, PROC_AB, HEX_RED, HEX_BLUE, ANIM_NONE)
CTL_GLOBAL_RAINBOW == Rule(MATCH_GLOBAL, <<>>, HEX_RED, HEX_BLUE, Anim(STR_RAINBOW, 10))
CTL_PROCESS_EMPTY == Rule(MATCH_PROCESS, <<>>, HEX_RED, HEX_BLUE, Anim(STR_PULSE, 10))
\* the parsed config.json files the controller is constructed on: no rules,
\* a Process rule before two Global rules, a single static Global rule
CtlFileSample ==
    { CtlFile(e, a, rules) :
        e \in BOOLEAN, a \in {NoAnimDict},
        rules \in { <<>>,
                    <<CTL_PROCESS_AB, DEFAULT_GLOBAL_RULE, CTL_GLOBAL_RAINBOW>>,
                    <<DEFAULT_GLOBAL_RULE>> } }
\* the arguments of the operations
CtlRuleArgs == {CTL_PROCESS_AB, CTL_GLOBAL_RAINBOW, CTL_PROCESS_EMPTY}
CtlIndexes == -1..MaxCtlRules
CtlExeArgs == {<<>>, <<" ">>, <<" ","a","b"," ">>}

\* Config._load followed by rules_text: the working copy of a file
CtlLoaded(file) == [ConfigLoad(file) EXCEPT !.window_rules = EnsureSingleGlobalOnTop(@)]

\* AppController.__init__
InitController ==
    /\ cfg_file \in CtlFileSample
    /\ config_data = CtlLoaded(cfg_file)
    /\ service_enabled = cfg_file.service_enabled
    /\ timer_active = cfg_file.service_enabled
    /\ anim_timer_active =
          (cfg_file.service_enabled /\ HasAnimIn(ConfigLoad(cfg_file).window_rules))
    /\ windows = [h \in Handles |-> <<>>]
    /\ fg = 0
    /\ anim_state = EmptyDict
    /\ _pass_id = 0
    /\ last_colors = EmptyDict
    /\ border = [h \in Handles |-> DWMWA_COLOR_DEFAULT]
    /\ frames = EmptyDict
    /\ native_calls = EmptyDict
    /\ pass_queue = <<>>
    /\ pass_mode = "idle"
    /\ CodecIdle
    /\ PickIdle
    /\ ResolveIdle
    /\ PhaseIdle
    /\ AdvanceIdle /\ WriterIdle /\ PidCacheIdle /\ EngineIdle /\ OpIdle

\* what the operations leave alone
CtlRest ==
    /\ UNCHANGED <<windows, fg, anim_state, _pass_id, last_colors, border, frames,
                   pass_queue, pass_mode, native_calls>>
    /\ UNCHANGED <<codecVars, pickVars, resolveVars, phaseVars,
                   advanceVars, writerVars, pidVars, engineVars, opVars>>

\* the tail of the rule operations: _emit_rules (rules_text runs
\* ensure_single_global_on_top) and _rearm_anim_timer; the list is kept
\* within MaxCtlRules rules
CtlCommit(rules) ==
    /\ Len(EnsureSingleGlobalOnTop(rules)) <= MaxCtlRules
    /\ config_data' = [config_data EXCEPT !.window_rules = EnsureSingleGlobalOnTop(rules)]
    /\ anim_timer_active' = (HasAnimIn(EnsureSingleGlobalOnTop(rules)) /\ service_enabled)
    /\ UNCHANGED <<cfg_file, service_enabled, timer_active>>
    /\ CtlRest

\* an operation that returns before changing anything
CtlReturn == UNCHANGED vars

\* AppController.add_rule
AddRule ==
    /\ pass_mode = "idle"
    /\ Len(config_data.window_rules) < MaxCtlRules
    /\ \E rule \in CtlRuleArgs : CtlCommit(Append(config_data.window_rules, rule))

\* AppController.edit_rule; index counts from 0
EditRule ==
    /\ pass_mode = "idle"
    /\ \E index \in CtlIndexes, new_rule \in CtlRuleArgs :
          LET rules == config_data.window_rules IN
          IF index < 0 \/ index >= Len(rules) THEN CtlReturn
          ELSE LET old == rules[index + 1]
                   r == IF IsProcessRule(new_rule) /\ new_rule.contains = <<>>
                        THEN [new_rule EXCEPT !.contains = old.contains]
                        ELSE new_rule
               IN  CtlCommit([rules EXCEPT ![index + 1] = r])

\* AppController.remove_rule
RemoveRule ==
    /\ pass_mode = "idle"
    /\ \E index \in CtlIndexes :
          LET rules == config_data.window_rules IN
          IF index < 0 \/ index >= Len(rules) THEN CtlReturn
          ELSE IF IsGlobalRule(rules[index + 1]) THEN CtlReturn
          ELSE CtlCommit(RemoveAt(rules, index + 1))

\* AppController.duplicate_rule
DuplicateRule ==
    /\ pass_mode = "idle"
    /\ Len(config_data.window_rules) < MaxCtlRules
    /\ \E index \in CtlIndexes :
          LET rules == config_data.window_rules IN
          IF index < 0 \/ index >= Len(rules) THEN CtlReturn
          ELSE IF IsGlobalRule(rules[index + 1]) THEN CtlReturn
          ELSE CtlCommit(Append(rules, rules[index + 1]))

\* AppController.find_process_rule: is there a Process rule for exe
HasProcessRule(rules, exe) ==
    \E i \in DOMAIN rules :
        IsProcessRule(rules[i]) /\ Lower(Strip(rules[i].contains)) = Lower(Strip(exe))

\* AppController.add_or_warn_process_rule
AddOrWarnProcessRule ==
    /\ pass_mode = "idle"
    /\ Len(config_data.window_rules) < MaxCtlRules
    /\ \E exe0 \in CtlExeArgs :
          LET exe == Strip(exe0)
              rules == config_data.window_rules
          IN  IF exe = <<>> THEN CtlReturn
              ELSE IF HasProcessRule(rules, exe) THEN CtlReturn
              ELSE CtlCommit(Append(rules, Rule(MATCH_PROCESS, exe, HEX_RED, HEX_BLUE, ANIM_NONE)))

\* a disable that stops the coarse timer only
ToggleTimersCoarseOnly(enabled, rules) ==
    /\ service_enabled' = enabled
    /\ timer_active' = enabled
    /\ anim_timer_active' = IF enabled THEN HasAnimIn(rules) ELSE anim_timer_active

\* AppController.toggle_service on the working copy rules
ToggleTimers(enabled, rules) ==
    /\ service_enabled' = enabled
    /\ timer_active' = enabled
    /\ anim_timer_active' = (enabled /\ HasAnimIn(rules))

\* AppController.toggle_service
ToggleService ==
    /\ pass_mode = "idle"
    /\ \E enabled \in BOOLEAN : ToggleTimers(enabled, config_data.window_rules)
    /\ UNCHANGED <<config_data, cfg_file>>
    /\ CtlRest

\* AppController.reload_config
ReloadConfig ==
    /\ pass_mode = "idle"
    /\ config_data' = CtlLoaded(cfg_file)
    /\ ToggleTimers(cfg_file.service_enabled, CtlLoaded(cfg_file).window_rules)
    /\ UNCHANGED cfg_file
    /\ CtlRest

\* save_config's normalisation of one colour field
SaveColor(v) == IF Lower(v) \in {STR_DEFAULT, STR_NONE} THEN v ELSE normalize_hex(v)

\* AppController.save_config
SaveConfig ==
    /\ pass_mode = "idle"
    /\ LET normalized == [i \in DOMAIN config_data.window_rules |->
                             [config_data.window_rules[i] EXCEPT
                                 !.active_border_color = SaveColor(@),
                                 !.inactive_border_color = SaveColor(@)]]
           rules == EnsureSingleGlobalOnTop(normalized)
       IN  /\ config_data' = [config_data EXCEPT !.window_rules = rules]
           /\ cfg_file' = CtlFile(service_enabled, config_data.animation, rules)
           /\ anim_timer_active' = (HasAnimIn(rules) /\ service_enabled)
    /\ UNCHANGED <<service_enabled, timer_active>>
    /\ CtlRest

\* timer fires: _tick
CtlTick ==
    /\ timer_active
    /\ BeginPass("full")

\* animTimer fires: _tick_anim
CtlTickAnim ==
    /\ anim_timer_active
    /\ BeginPass("animated_only")

NextController ==
    \/ AddRule \/ EditRule \/ RemoveRule \/ DuplicateRule \/ AddOrWarnProcessRule
    \/ ToggleService \/ ReloadConfig \/ SaveConfig
    \/ CtlTick \/ CtlTickAnim \/ EndPass

SpecController == InitController /\ [][NextController]_vars

\* C16: after construction, after every controller operation and at the
\* start of every pass, the rule list holds exactly one Global rule, at
\* index 0.
C16_OneGlobalFirst ==
    LET rules == config_data.window_rules IN
    /\ rules # <<>>
    /\ IsGlobalRule(rules[1])
    /\ Cardinality(GlobalIndexes(rules)) = 1

\* a pass starts on a list the operations have filled and that differs from
\* the file's
C16_Witness ==
    /\ pass_mode # "idle"
    /\ Len(config_data.window_rules) = MaxCtlRules
    /\ config_data.window_rules[1] = CTL_GLOBAL_RAINBOW
    /\ config_data # CtlLoaded(cfg_file)

(***************************************************************************)
(* Stopping the service                                                    *)
(***************************************************************************)
\* a pass, full or animated-only, starts
PassStarts == _pass_id' # _pass_id

\* C20: once the service is disabled both timers are inactive and stay so,
\* and no pass starts, until the service is enabled again; and it is
\* enabled again only by toggle_service(true), which leaves the rules as
\* they are, or by reload_config of a file with service_enabled set.
C20_StopIsSynchronous ==
    [][/\ ~service_enabled' => (~timer_active' /\ ~anim_timer_active')
       /\ PassStarts => service_enabled
       /\ ~service_enabled => pass_mode = "idle"
       /\ (~service_enabled /\ service_enabled')
             => \/ config_data' = config_data /\ cfg_file' = cfg_file
                \/ cfg_file.service_enabled /\ config_data' = CtlLoaded(cfg_file)
      ]_vars

\* the service has run animated passes and is stopped, with an animated
\* rule still configured
C20_Witness ==
    /\ ~service_enabled
    /\ _pass_id = MaxPasses
    /\ HasAnim
    /\ ~timer_active
    /\ ~anim_timer_active

(***************************************************************************)
(* The process-name cache while passes run: SpecPidCache                   *)
(***************************************************************************)
MaxPids == 3
\* what one step of the clock adds to time.time()
ClockStep == 30
\* _gc_pid_cache(max_age=60)
MAX_AGE == 60
\* ages are counted up to the first value above MAX_AGE
AgeCap == MAX_AGE + ClockStep

Pids == 1..MaxPids
\* _query_process_name_native
QueryProcessName(pid) == IF pid = 1 THEN PROC_AB ELSE PROC_C

\* _gc_pid_cache on [names, seen]; nothing in the repository calls it
GcPidCache(c) ==
    LET stale == {pid \in DOMAIN c.seen : c.seen[pid] > MAX_AGE} IN
    [names |-> [pid \in DOMAIN c.names \ stale |-> c.names[pid]],
     seen |-> [pid \in DOMAIN c.seen \ stale |-> c.seen[pid]]]

\* get_process_name_fast on [names, seen]: the caches after the call
GetProcessNameFast(c, pid) ==
    IF pid \in DOMAIN c.names
    THEN [c EXCEPT !.seen = Put(@, pid, 0)]
    ELSE [names |-> Put(c.names, pid, QueryProcessName(pid)),
          seen |-> Put(c.seen, pid, 0)]

\* a pass looks up the pids of the windows it enumerates
RECURSIVE LookupAll(_, _)
LookupAll(c, S) ==
    IF S = {} THEN c
    ELSE LET pid == CHOOSE x \in S : TRUE IN
         LookupAll(GetProcessNameFast(c, pid), S \ {pid})

InitPidCache ==
    /\ pid_name_cache = EmptyDict
    /\ pid_last_seen = EmptyDict
    /\ LookupIdle
    /\ CodecIdle
    /\ PickIdle
    /\ ResolveIdle
    /\ PassIdle
    /\ PhaseIdle
    /\ AdvanceIdle /\ WriterIdle /\ ControllerIdle /\ EngineIdle /\ OpIdle

\* apply_colors_once: cb calls get_process_name for each visible titled
\* window; S is the set of their pids
PidPass ==
    /\ \E S \in SUBSET Pids :
          LET c == LookupAll([names |-> pid_name_cache, seen |-> pid_last_seen], S) IN
          /\ pid_name_cache' = c.names
          /\ pid_last_seen' = c.seen
    /\ UNCHANGED <<pidQueries, pidOut>>
    /\ UNCHANGED <<codecVars, pickVars, resolveVars, passVars, phaseVars,
                   advanceVars, writerVars, controllerVars, engineVars, opVars>>

\* time passes
PidClock ==
    /\ pid_last_seen' = [pid \in DOMAIN pid_last_seen |->
                            Min(pid_last_seen[pid] + ClockStep, AgeCap)]
    /\ UNCHANGED <<pid_name_cache, pidQueries, pidOut>>
    /\ UNCHANGED <<codecVars, pickVars, resolveVars, passVars, phaseVars,
                   advanceVars, writerVars, controllerVars, engineVars, opVars>>

NextPidCache == PidPass \/ PidClock

\* the timers keep firing and time keeps passing
SpecPidCache ==
    InitPidCache /\ [][NextPidCache]_vars /\ WF_vars(PidPass) /\ WF_vars(PidClock)

StaleEntry(pid) == pid \in DOMAIN pid_last_seen /\ pid_last_seen[pid] > MAX_AGE

\* C17: while passes keep running, an entry of the process-name cache that
\* was last seen more than 60 time units ago does not stay: it is eventually
\* evicted (or, at the least, seen again).
C17_StaleEntryEvicted ==
    \A pid \in Pids : StaleEntry(pid) ~> ~StaleEntry(pid)


(***************************************************************************)
(* A failing native call during a pass                                     *)
(***************************************************************************)
\* the pass has dealt with window h: cb reached the native write for it, or
\* left the write out because the cache holds the colour it resolved
DealtWith(h) ==
    \/ h \in DOMAIN native_calls'
    \/ h \in DOMAIN last_colors' /\ last_colors'[h] = StaticTarget(h)

\* the window whose native call stopped the enumeration, if one did
FailingWindow == IF pass_queue = <<>> THEN 0 ELSE Head(pass_queue)

\* C18: when a native call made for one window fails during a full pass
\* (the border write, or a query of style, title, class name or process
\* id), only that window is skipped: by the time the pass is over, every
\* other window that resolves to explicit static colours has been matched,
\* resolved and handed to the writer.
C18_OnlyFailingWindowSkipped ==
    [][(pass_mode = "full" /\ pass_mode' = "idle") =>
          \A h \in Handles :
              (StaticExplicit(h) /\ h # FailingWindow) => DealtWith(h)]_vars

(***************************************************************************)
(* Entries of _last_colors left behind by closed windows                   *)
(***************************************************************************)
\* C19: an entry of _last_colors left behind by a closed window changes
\* nothing for a live window: whenever cb of a full pass returns for a
\* window that resolves to explicit static colours (a new window under the
\* handle of a closed one included), the border that window shows is the
\* resolved colour.
C19_StaleEntryHarmless ==
    [][(/\ pass_mode = "full"
        /\ pass_queue # <<>>
        /\ pass_queue' = Tail(pass_queue)
        /\ pass_mode' = pass_mode
        /\ StaticExplicit(Head(pass_queue)))
       => border'[Head(pass_queue)] = StaticTarget(Head(pass_queue))]_vars


(***************************************************************************)
(* Animation._lerp_rgb applied to two colours: SpecLerp                    *)
(***************************************************************************)
\* 24-bit colours: the corners of the colour cube the animations use, the
\* default Global colour and a colour with three different channels
LerpColors == {BLACK, WHITE, RED, BLUE, Rgb(198, 160, 246), Rgb(18, 52, 86)}
\* t in [0, 1] as <<numerator, denominator>>
LerpParams ==
    {<<0, 1>>, <<1, 1>>, <<1, 2>>, <<1, 3>>, <<2, 3>>, <<1, 4>>, <<3, 4>>,
     <<1, 1000>>, <<999, 1000>>}

InitLerp ==
    /\ lerpA \in LerpColors
    /\ lerpB \in LerpColors
    /\ lerpT \in LerpParams
    /\ lerpOut = NONE_RGB
    /\ rbSt = <<>>
    /\ rbSpeed = 0
    /\ rbTrail = <<>>
    /\ CodecIdle
    /\ PickIdle
    /\ ResolveIdle
    /\ PassIdle
    /\ PhaseIdle
    /\ AdvanceIdle /\ WriterIdle /\ ControllerIdle /\ PidCacheIdle /\ OpIdle

\* _lerp_rgb(lerpA, lerpB, t)
LerpApply ==
    /\ lerpOut = NONE_RGB
    /\ lerpOut' = LerpRgb(lerpA, lerpB, lerpT[1], lerpT[2])
    /\ UNCHANGED <<lerpA, lerpB, lerpT, rbSt, rbSpeed, rbTrail>>
    /\ UNCHANGED <<codecVars, pickVars, resolveVars, passVars, phaseVars,
                   advanceVars, writerVars, controllerVars, pidVars, opVars>>

NextLerp == LerpApply

SpecLerp == InitLerp /\ [][NextLerp]_vars

\* v lies between x and y, whichever is the larger
Between(v, x, y) == Min(x, y) <= v /\ v <= Max(x, y)

\* C25: lerp(a, b, 0) = a and lerp(a, b, 1) = b, and for every t in [0, 1]
\* each channel of lerp(a, b, t) lies between the same channels of a and b,
\* so that the result is a 24-bit colour.
C25_LerpEndsAndBetween ==
    lerpOut # NONE_RGB =>
        /\ lerpT[1] = 0 => lerpOut = lerpA
        /\ lerpT[1] = lerpT[2] => lerpOut = lerpB
        /\ Between(RgbR(lerpOut), RgbR(lerpA), RgbR(lerpB))
        /\ Between(RgbG(lerpOut), RgbG(lerpA), RgbG(lerpB))
        /\ Between(RgbB(lerpOut), RgbB(lerpA), RgbB(lerpB))
        /\ lerpOut \in 0..WHITE
        /\ lerpOut = Rgb(RgbR(lerpOut), RgbG(lerpOut), RgbB(lerpOut))

\* a third of the way down from white to black, truncated
C25_Witness ==
    /\ lerpA = WHITE
    /\ lerpB = BLACK
    /\ lerpT = <<1, 3>>
    /\ lerpOut = Rgb(170, 170, 170)


(***************************************************************************)
(* Animation._rainbow called pass after pass on one key: SpecRainbow       *)
(***************************************************************************)
\* the laps of the hexagon a run makes
MaxLaps == 1

\* speeds in tenths: negative, zero, under and over the step of one, steps
\* that do and do not divide 255, and steps of a whole edge and more
RainbowSpeeds == {-10, 0, 1, 4, 10, 25, 37, 100, 510, 600}

YELLOW == Rgb(255, 255, 0)
GREEN == Rgb(0, 255, 0)
CYAN == Rgb(0, 255, 255)
MAGENTA == Rgb(255, 0, 255)
HexagonVertices == <<RED, YELLOW, GREEN, CYAN, BLUE, MAGENTA>>
IsVertex(c) == \E i \in DOMAIN HexagonVertices : HexagonVertices[i] = c

\* Animation._get_state creates the entry: pure red
InitRainbow ==
    /\ rbSt = NewAnimState
    /\ rbSpeed \in RainbowSpeeds
    /\ rbTrail = <<RED>>
    /\ lerpA = 0
    /\ lerpB = 0
    /\ lerpT = 0
    /\ lerpOut = 0
    /\ CodecIdle
    /\ PickIdle
    /\ ResolveIdle
    /\ PassIdle
    /\ PhaseIdle
    /\ AdvanceIdle /\ WriterIdle /\ ControllerIdle /\ PidCacheIdle /\ OpIdle

\* the next pass calls _rainbow(key, speed, pass_id) once
RainbowCall ==
    /\ Len(rbTrail) < 6 * MaxLaps + 1
    /\ LET st == Rainbow(rbSt, rbSpeed, rbSt.last_pass + (IF rbSt.last_pass < 0 THEN 2 ELSE 1)) IN
          /\ rbSt' = st
          /\ rbTrail' = IF IsVertex(st.current) THEN Append(rbTrail, st.current) ELSE rbTrail
    /\ UNCHANGED <<rbSpeed, lerpA, lerpB, lerpT, lerpOut>>
    /\ UNCHANGED <<codecVars, pickVars, resolveVars, passVars, phaseVars,
                   advanceVars, writerVars, controllerVars, pidVars, opVars>>

NextRainbow == RainbowCall

\* the timer keeps firing: the next pass always comes
SpecRainbow == InitRainbow /\ [][NextRainbow]_vars /\ WF_vars(RainbowCall)

\* the channels in which two colours differ
ChannelsChanged(c, d) ==
    {ch \in {"r", "g", "b"} :
        \/ ch = "r" /\ RgbR(c) # RgbR(d)
        \/ ch = "g" /\ RgbG(c) # RgbG(d)
        \/ ch = "b" /\ RgbB(c) # RgbB(d)}
\* the largest change of a channel between two colours
ChannelDistance(c, d) ==
    Max(Abs(RgbR(c) - RgbR(d)), Max(Abs(RgbG(c) - RgbG(d)), Abs(RgbB(c) - RgbB(d))))

\* one channel at 255 and one channel at 0
OnHexagon(c) ==
    /\ 255 \in {RgbR(c), RgbG(c), RgbB(c)}
    /\ 0 \in {RgbR(c), RgbG(c), RgbB(c)}
    /\ c = Rgb(RgbR(c), RgbG(c), RgbB(c))

\* _rainbow's final else: none of the six phases applies to the colour
RainbowResets(c) ==
    LET r == RgbR(c)
        g == RgbG(c)
        b == RgbB(c)
    IN  /\ ~(r = 255 /\ g < 255 /\ b = 0)
        /\ ~(g = 255 /\ r > 0 /\ b = 0)
        /\ ~(g = 255 /\ b < 255 /\ r = 0)
        /\ ~(b = 255 /\ g > 0 /\ r = 0)
        /\ ~(b = 255 /\ r < 255 /\ g = 0)
        /\ ~(r = 255 /\ b > 0 /\ g = 0)

\* the vertices reached so far are red, yellow, green, cyan, blue, magenta,
\* red, ... in this order
TrailInOrder ==
    \A i \in DOMAIN rbTrail : rbTrail[i] = HexagonVertices[((i - 1) % 6) + 1]

\* C29: starting from pure red, every rainbow step changes exactly one
\* channel, by at most max(1, int(speed * 5)); every stored colour has one
\* channel at 255 and one at 0 and the reset-to-red branch is never taken;
\* and the colour visits the vertices red, yellow, green, cyan, blue,
\* magenta in this order and returns to red, for every speed.
C29_RainbowWalksHexagon ==
    /\ [](OnHexagon(rbSt.current) /\ ~RainbowResets(rbSt.current) /\ TrailInOrder)
    /\ [][/\ Cardinality(ChannelsChanged(rbSt.current, rbSt'.current)) = 1
          /\ ChannelDistance(rbSt.current, rbSt'.current) <= Max(1, (rbSpeed * 5) \div 10)
         ]_vars
    /\ <>(Len(rbTrail) = 6 * MaxLaps + 1 /\ rbSt.current = RED)

\* a lap is complete with a step of 12, which does not divide 255
C29_Witness ==
    /\ rbSpeed = 25
    /\ Len(rbTrail) = 6 * MaxLaps + 1
    /\ rbSt.current = RED
    /\ rbSt.time > 0


(***************************************************************************)
(* The timers and the service flag                                         *)
(***************************************************************************)
\* a rule of the list has an animation kind other than none
SomeRuleAnimated(rules) ==
    \E i \in DOMAIN rules : KindOf(rules[i].animation) # STR_NONE

\* C30: after construction and after every controller operation the main
\* timer is active exactly when service_enabled is true, and the animation
\* timer is active exactly when service_enabled is true and a rule of the
\* current list has an animation kind other than none.
C30_TimersFollowService ==
    /\ timer_active = service_enabled
    /\ anim_timer_active = (service_enabled /\ SomeRuleAnimated(config_data.window_rules))


(***************************************************************************)
(* Animated windows and the foreground                                     *)
(***************************************************************************)
\* what cb would leave for the next window of the running pass if the
\* foreground window were fgw
CbWith(fgw, outcome) ==
    Cb([anim |-> anim_state, last |-> last_colors, border |-> border,
        frames |-> frames, calls |-> native_calls],
       config_data, Head(pass_queue), windows[Head(pass_queue)][1], fgw,
       pass_mode = "animated_only", _pass_id, outcome)

\* the next window of the running pass is resolved to an animation
NextIsAnimated ==
    /\ pass_mode # "idle"
    /\ pass_queue # <<>>
    /\ Eligible(Head(pass_queue))
    /\ ~IsStatic(Resolution(Head(pass_queue)))

\* C22: for a window resolved to an animation, what a pass writes is the
\* same whether or not the window is the foreground window: with any other
\* foreground window, or none, cb chooses the same frame, makes the same
\* native call and leaves the same state.
C22_FrameIgnoresFocus ==
    NextIsAnimated =>
        \A outcome \in NativeOutcomes, fgw \in Handles \cup {0} :
            CbWith(fgw, outcome) = CbWith(fg, outcome)

\* cb is about to write a frame for an animated window that is the
\* foreground window, with another window on the desktop
C22_Witness ==
    /\ NextIsAnimated
    /\ fg = Head(pass_queue)
    /\ Cardinality(Live) = MaxHandles
    /\ Head(pass_queue) \in DOMAIN CbWith(fg, "ok").calls
    /\ CbWith(fg, "ok").border[fg] # border[fg]

(***************************************************************************)
(* Animated-only passes and static windows                                 *)
(***************************************************************************)
\* the entry of a dict, <<>> when there is none
EntryOf(d, k) == IF k \in DOMAIN d THEN <<d[k]>> ELSE <<>>

\* C23: an animated_only pass leaves every window resolved to Static
\* untouched, whatever its focus state: no native write is made for it and
\* its entry of _last_colors (and so its border) stays as it was.
C23_AnimatedOnlySkipsStatic ==
    [][pass_mode = "animated_only" =>
          \A h \in Live :
              IsStatic(Resolution(h)) =>
                  /\ h \notin DOMAIN native_calls'
                  /\ EntryOf(last_colors', h) = EntryOf(last_colors, h)
                  /\ border'[h] = border[h]]_vars

\* an animated_only pass has gone past a foreground window with explicit
\* static colours that no pass has coloured yet, and has written a frame for
\* another window
C23_Witness ==
    /\ pass_mode = "animated_only"
    /\ pass_queue = <<>>
    /\ fg \in Live
    /\ StaticExplicit(fg)
    /\ fg \notin DOMAIN last_colors
    /\ \E h \in Live : h # fg /\ h \in DOMAIN native_calls

(***************************************************************************)
(* The pass counter                                                        *)
(***************************************************************************)
\* C27: every pass, from either timer and whether it completes or fails
\* partway, uses a pass id one greater than the pass before, so no two
\* passes share an id; and every animation key referenced in a pass has its
\* elapsed time advanced exactly once in that pass: a key a window of the
\* pass was given a frame for has been advanced under the pass's id, and the
\* time of a key moves only if the key was not yet advanced under that id.
C27_PassIdsAdvanceOnce ==
    [][/\ _pass_id' # _pass_id => (_pass_id' = _pass_id + 1 /\ pass_mode = "idle")
       /\ (pass_mode = "idle" /\ pass_mode' # "idle") => _pass_id' = _pass_id + 1
       /\ \A k \in DOMAIN anim_state' :
             /\ anim_state'[k].last_pass <= _pass_id'
             /\ anim_state'[k].time # GetState(anim_state, k).time
                   => /\ GetState(anim_state, k).last_pass # _pass_id
                      /\ anim_state'[k].last_pass = _pass_id
       /\ \A h \in DOMAIN frames' : anim_state'[frames'[h].key].last_pass = _pass_id'
      ]_vars

\* the last pass, an animated_only one, has given two windows a frame under
\* one key, whose time has been advanced once in each pass
C27_Witness ==
    /\ _pass_id = MaxPasses
    /\ pass_mode = "animated_only"
    /\ \E h1, h2 \in DOMAIN frames :
          /\ h1 # h2
          /\ frames[h1].key = frames[h2].key
          /\ anim_state[frames[h1].key].last_pass = _pass_id
          /\ anim_state[frames[h1].key].time = MaxPasses * 10 * 100


(***************************************************************************)
(* The frames of a pass and the writer, when no native call fails:         *)
(* SpecFrames                                                              *)
(***************************************************************************)
STR_BOGUS == <<"b","o","g","u","s">>
\* the parsed config.json files: a Global rule with an animation kind the
\* engine does not know, and a Global rule stepping between pure red and
\* blue at speed 100.0
FrameConfigSample ==
    { [animation |-> NoAnimDict,
       window_rules |-> <<Rule(MATCH_GLOBAL, <<>>, <<"#","c","6","a","0","f","6">>,
                               <<"#","f","f","f","f","f","f">>, Anim(STR_BOGUS, 10))>>],
      [animation |-> NoAnimDict,
       window_rules |-> <<Rule(MATCH_GLOBAL, <<>>, HEX_RED, HEX_BLUE, Anim(STR_STEPS, 1000))>>] }

InitFrames ==
    /\ \E file \in FrameConfigSample :
          config_data = [ConfigLoad(file) EXCEPT !.window_rules = EnsureSingleGlobalOnTop(@)]
    /\ windows = [h \in Handles |-> <<>>]
    /\ fg = 0
    /\ anim_state = EmptyDict
    /\ _pass_id = 0
    /\ last_colors = EmptyDict
    /\ border = [h \in Handles |-> DWMWA_COLOR_DEFAULT]
    /\ frames = EmptyDict
    /\ native_calls = EmptyDict
    /\ pass_queue = <<>>
    /\ pass_mode = "idle"
    /\ CodecIdle
    /\ PickIdle
    /\ ResolveIdle
    /\ PhaseIdle
    /\ RestIdle

SpecFrames == InitFrames /\ [][NextReliable]_vars

\* the rule cb finds for a window
RuleOf(h) == RuleFor(config_data, windows[h][1].process_name)

\* the window's rule has an animation kind the engine does not know
UnknownKind(h) ==
    /\ Eligible(h)
    /\ Resolution(h).anim.type \notin AnimKinds \cup {STR_NONE}

\* the static colour of the window's rule for the window's focus state
RuleStaticColor(h) ==
    ResolveStaticColor(RuleOf(h), IF h = fg THEN "active_border_color"
                                  ELSE "inactive_border_color")

\* the animation key cb builds for the window
KeyOf(h) ==
    AnimKey(RuleOf(h) # NoRule /\ IsGlobalRule(RuleOf(h)[1]),
            windows[h][1].process_name, Resolution(h).anim.type)

\* C24: for a rule whose animation kind is none of none, rainbow, pulse,
\* fade, breath, tri, sparkle, steps, the engine returns no colour and
\* creates or advances no animation state, the pass does not fail, and the
\* window keeps its static behaviour: when a full pass is over it shows the
\* rule's static active or inactive colour.
C24_UnknownKindStaysStatic ==
    [][FullPassEnds =>
          \A h \in Handles :
              UnknownKind(h) =>
                  /\ h \notin DOMAIN frames'
                  /\ KeyOf(h) \notin DOMAIN anim_state'
                  /\ border'[h] = RuleStaticColor(h)]_vars

\* C26: every frame the engine produces for a window in a pass is handed to
\* the native write primitive, unless it is the colour last recorded for the
\* handle: no frame of any animation kind is dropped as a sentinel.
C26_EveryFrameWritten ==
    [][(pass_mode # "idle" /\ pass_queue # <<>> /\ pass_queue' = Tail(pass_queue)
            /\ Head(pass_queue) \in DOMAIN frames')
       => LET h == Head(pass_queue)
              c == RgbToColorref(frames'[h].color)
          IN  \/ h \in DOMAIN native_calls' /\ native_calls'[h] = c
              \/ h \in DOMAIN last_colors /\ last_colors[h] = c]_vars


(***************************************************************************)
(* The controller driving passes over a desktop: SpecService.  Two         *)
(* windows stay open; the timers fire, native calls fail, and the rules    *)
(* change between passes.                                                  *)
(***************************************************************************)
\* the parsed config.json files: a Global rule with the colours "default"
\* and "none", and an animated Global rule
ServiceFileSample ==
    { CtlFile(e, NoAnimDict, rules) :
        e \in BOOLEAN,
        rules \in { <<Rule(MATCH_GLOBAL, <<>>, STR_DEFAULT, STR_NONE, ANIM_NONE)>>,
                    <<CTL_GLOBAL_RAINBOW>> } }

\* AppController.__init__ on a desktop with a window of process "ab" and a
\* window of process "c"
InitService ==
    /\ cfg_file \in ServiceFileSample
    /\ config_data = CtlLoaded(cfg_file)
    /\ service_enabled = cfg_file.service_enabled
    /\ timer_active = cfg_file.service_enabled
    /\ anim_timer_active =
          (cfg_file.service_enabled /\ HasAnimIn(ConfigLoad(cfg_file).window_rules))
    /\ windows = [h \in Handles |->
                     <<Window(IF h = 1 THEN PROC_AB ELSE PROC_C, <<"t">>, TRUE, FALSE)>>]
    /\ fg \in {0, 1}
    /\ anim_state = EmptyDict
    /\ _pass_id = 0
    /\ last_colors = EmptyDict
    /\ border = [h \in Handles |-> DWMWA_COLOR_DEFAULT]
    /\ frames = EmptyDict
    /\ native_calls = EmptyDict
    /\ pass_queue = <<>>
    /\ pass_mode = "idle"
    /\ CodecIdle
    /\ PickIdle
    /\ ResolveIdle
    /\ PhaseIdle
    /\ AdvanceIdle /\ WriterIdle /\ PidCacheIdle /\ EngineIdle /\ OpIdle

NextService ==
    \/ AddOrWarnProcessRule \/ RemoveRule \/ ReloadConfig \/ ToggleService
    \/ CtlTick \/ CtlTickAnim \/ CbReturns \/ CbRaises \/ EndPass

SpecService == InitService /\ [][NextService]_vars

\* a pass is left by an exception: it ends with windows still to enumerate
PassRaises == pass_mode # "idle" /\ pass_queue # <<>> /\ pass_mode' = "idle"

\* C21: a pass that fails partway does not stop the timer loop: the step in
\* which the pass raises leaves both timers and the service flag as they
\* were, and whenever the service is enabled the main timer is active, so
\* that a later tick runs another pass.
C21_RaisingPassKeepsTimers ==
    [][/\ PassRaises => UNCHANGED <<timer_active, anim_timer_active, service_enabled>>
       /\ service_enabled' => timer_active'
       /\ (timer_active /\ pass_mode = "idle" /\ _pass_id < MaxPasses) => ENABLED CtlTick
      ]_vars

\* the first pass was left by an exception after one of two animated
\* windows; both timers are still active and a tick has started the next pass
C21_Witness ==
    /\ _pass_id = MaxPasses
    /\ pass_mode = "full"
    /\ Len(pass_queue) = MaxHandles
    /\ service_enabled /\ timer_active /\ anim_timer_active
    /\ \A h \in Handles : ~IsStatic(Resolution(h))
    /\ \E k \in DOMAIN anim_state :
          /\ anim_state[k].last_pass = _pass_id - 1
          /\ anim_state[k].current = RainbowStep(RED, 10)
    /\ Cardinality(DOMAIN anim_state) = 1

(***************************************************************************)
(* The writer and the sentinel colours                                     *)
(***************************************************************************)
\* cb hands the writer a sentinel for the next window of the running pass
NextGetsSentinel ==
    /\ pass_mode = "full"
    /\ pass_queue # <<>>
    /\ pass_queue' = Tail(pass_queue)
    /\ Eligible(Head(pass_queue))
    /\ IsStatic(Resolution(Head(pass_queue)))
    /\ StaticTarget(Head(pass_queue)) \in Sentinels

\* C28: called with a sentinel colour (Default, None or Invalid) the writer
\* makes no native call and leaves _last_colors unchanged; so a window whose
\* resolution has changed from an explicit colour to Default or None keeps
\* showing the colour written last.
C28_SentinelWritesNothing ==
    [][NextGetsSentinel =>
          /\ Head(pass_queue) \notin DOMAIN native_calls'
          /\ last_colors' = last_colors
          /\ border'[Head(pass_queue)] = border[Head(pass_queue)]]_vars

\* a full pass has gone over a window that an earlier pass coloured blue
\* under a Process rule and that now, the rule gone, resolves to Default and
\* None: it still shows blue
C28_Witness ==
    /\ pass_mode = "full"
    /\ pass_queue = <<>>
    /\ StaticTarget(1) \in Sentinels
    /\ IsStatic(Resolution(1))
    /\ border[1] = hex_to_colorref(HEX_BLUE)
    /\ EntryOf(last_colors, 1) = <<hex_to_colorref(HEX_BLUE)>>
    /\ 1 \notin DOMAIN native_calls


(***************************************************************************)
(* _last_colors over a run of writer calls: SpecCache.  The cache starts   *)
(* empty, as the module creates it; each call has its own handle, colour   *)
(* and native outcome, and the log keeps what each call did.               *)
(***************************************************************************)
MaxWrites == 3

InitCache ==
    /\ wHwnd = 0
    /\ wColor = <<>>
    /\ wLast0 = EmptyDict
    /\ wLast = EmptyDict
    /\ wLog = <<>>
    /\ CodecIdle
    /\ PickIdle
    /\ ResolveIdle
    /\ PassIdle
    /\ PhaseIdle
    /\ AdvanceIdle /\ ControllerIdle /\ PidCacheIdle /\ EngineIdle /\ OpIdle

\* set_dwm_border_color(hwnd, color), the native primitive behaving as
\* `outcome` says when it is invoked
CacheSet ==
    /\ Len(wLog) < MaxWrites
    /\ \E hwnd \in Handles, color \in WriterColorSample, outcome \in NativeOutcomes :
          \E st \in {SetDwmBorderColor(
                        [anim |-> EmptyDict, last |-> wLast, border |-> EmptyDict,
                         frames |-> EmptyDict, calls |-> EmptyDict],
                        hwnd, color, outcome)} :
              /\ wHwnd' = hwnd
              /\ wColor' = color
              /\ wLast0' = wLast
              /\ wLast' = st.last
              /\ wLog' = Append(wLog, [hwnd |-> hwnd, color |-> color,
                                     result |-> IF hwnd \in DOMAIN st.calls
                                                THEN outcome ELSE "skipped"])

CacheStep ==
    /\ CacheSet
    /\ UNCHANGED <<codecVars, pickVars, resolveVars, passVars, phaseVars,
                   advanceVars, controllerVars, pidVars, engineVars, opVars>>

NextCache == CacheStep

SpecCache == InitCache /\ [][NextCache]_vars

\* the calls of the log, up to the n-th, in which the native primitive was
\* invoked for handle h and returned
ReturnedWrites(h, n) ==
    {i \in 1..n : wLog[i].hwnd = h /\ wLog[i].result \in {"ok", "fails"}}

Latest(S) == CHOOSE i \in S : \A j \in S : j <= i

\* what the most recent returning native write leaves for h after n calls
WrittenLast(h, n) ==
    IF ReturnedWrites(h, n) = {} THEN <<>>
    ELSE <<wLog[Latest(ReturnedWrites(h, n))].color>>

\* C31: in every reachable state the _last_colors entry of a handle is the
\* colour of the most recent native write for that handle that returned
\* without raising (no entry when there was none) and is never a sentinel;
\* a native write that raises leaves the entry unchanged, so that the next
\* call with the same colour for that handle invokes the native primitive
\* again.
C31_CacheIsLastReturnedWrite ==
    /\ \A h \in Handles : EntryOf(wLast, h) = WrittenLast(h, Len(wLog))
    /\ \A h \in DOMAIN wLast : wLast[h] \notin Sentinels
    /\ (wLog # <<>> /\ wLog[Len(wLog)].result = "raises") => wLast = wLast0
    /\ \A i, j \in DOMAIN wLog :
          (/\ i < j
           /\ wLog[i].result = "raises"
           /\ wLog[j].hwnd = wLog[i].hwnd
           /\ wLog[j].color = wLog[i].color
           /\ ReturnedWrites(wLog[i].hwnd, j - 1) = ReturnedWrites(wLog[i].hwnd, i))
          => wLog[j].result # "skipped"

\* a write raised and left the entry of an earlier write in place; the same
\* write was attempted again and recorded
C31_Witness ==
    /\ Len(wLog) = MaxWrites
    /\ wLog[1].result = "ok"
    /\ wLog[2].result = "raises"
    /\ wLog[3].result = "ok"
    /\ wLog[2].hwnd = wLog[1].hwnd /\ wLog[3].hwnd = wLog[1].hwnd
    /\ wLog[2].color # wLog[1].color /\ wLog[3].color = wLog[2].color
    /\ wLast0[wHwnd] = wLog[1].color
    /\ wLast[wHwnd] = wColor


(***************************************************************************)
(* The rule operations and what they return: SpecRuleOps.  The controller  *)
(* is constructed on a file and the UI layer calls add_rule, edit_rule,    *)
(* remove_rule and duplicate_rule, at any index, between passes.           *)
(***************************************************************************)
MSG_GLOBAL_FIXED ==
    <<"A", " ", "r", "e", "g", "r", "a", " ", "G", "l", "o", "b", "a", "l", " ", "é", " ",
      "f", "i", "x", "a", " ", "e", " ", "n", "ã", "o", " ", "p", "o", "d", "e", " ",
      "s", "e", "r", " ", "r", "e", "m", "o", "v", "i", "d", "a", ".">>
MSG_GLOBAL_NO_COPY ==
    <<"A", " ", "r", "e", "g", "r", "a", " ", "G", "l", "o", "b", "a", "l", " ",
      "n", "ã", "o", " ", "p", "o", "d", "e", " ", "s", "e", "r", " ",
      "d", "u", "p", "l", "i", "c", "a", "d", "a", ".">>

CTL_PROCESS_C == Rule(MATCH_PROCESS, PROC_C, HEX_BLUE, HEX_RED, Anim(STR_PULSE, 10))
OpRuleArgs == CtlRuleArgs \cup {CTL_PROCESS_C}

\* a remove_rule that deletes whatever rule the index names
RemoveRuleAnyKind(rules, index) ==
    IF index < 0 \/ index >= Len(rules)
    THEN [commit |-> FALSE, rules |-> rules, msg |-> <<>>]
    ELSE [commit |-> TRUE, rules |-> RemoveAt(rules, index + 1), msg |-> <<>>]

\* AppController.remove_rule up to its return or to _emit_rules: does it go
\* on to _emit_rules, the list it leaves, the string it returns
RemoveRuleResult(rules, index) ==
    IF index < 0 \/ index >= Len(rules)
    THEN [commit |-> FALSE, rules |-> rules, msg |-> <<>>]
    ELSE IF IsGlobalRule(rules[index + 1])
    THEN [commit |-> FALSE, rules |-> rules, msg |-> MSG_GLOBAL_FIXED]
    ELSE [commit |-> TRUE, rules |-> RemoveAt(rules, index + 1), msg |-> <<>>]

\* AppController.duplicate_rule, likewise
DuplicateRuleResult(rules, index) ==
    IF index < 0 \/ index >= Len(rules)
    THEN [commit |-> FALSE, rules |-> rules, msg |-> <<>>]
    ELSE IF IsGlobalRule(rules[index + 1])
    THEN [commit |-> FALSE, rules |-> rules, msg |-> MSG_GLOBAL_NO_COPY]
    ELSE [commit |-> TRUE, rules |-> Append(rules, rules[index + 1]), msg |-> <<>>]

\* an edit_rule that stores the new rule as it comes
EditRuleAsGiven(rules, index, new_rule) ==
    IF index < 0 \/ index >= Len(rules)
    THEN [commit |-> FALSE, rules |-> rules, msg |-> <<>>]
    ELSE [commit |-> TRUE, rules |-> [rules EXCEPT ![index + 1] = new_rule], msg |-> <<>>]

\* AppController.edit_rule, likewise (it returns None: no string)
EditRuleResult(rules, index, new_rule) ==
    IF index < 0 \/ index >= Len(rules)
    THEN [commit |-> FALSE, rules |-> rules, msg |-> <<>>]
    ELSE [commit |-> TRUE,
          rules |-> [rules EXCEPT ![index + 1] =
                        IF IsProcessRule(new_rule) /\ new_rule.contains = <<>>
                        THEN [new_rule EXCEPT !.contains = rules[index + 1].contains]
                        ELSE new_rule],
          msg |-> <<>>]

\* AppController.add_rule, likewise
AddRuleResult(rules, rule) ==
    [commit |-> TRUE, rules |-> Append(rules, rule), msg |-> <<>>]

InitRuleOps ==
    /\ cfg_file \in CtlFileSample
    /\ config_data = CtlLoaded(cfg_file)
    /\ service_enabled = cfg_file.service_enabled
    /\ timer_active = cfg_file.service_enabled
    /\ anim_timer_active =
          (cfg_file.service_enabled /\ HasAnimIn(ConfigLoad(cfg_file).window_rules))
    /\ windows = [h \in Handles |-> <<>>]
    /\ fg = 0
    /\ anim_state = EmptyDict
    /\ _pass_id = 0
    /\ last_colors = EmptyDict
    /\ border = [h \in Handles |-> DWMWA_COLOR_DEFAULT]
    /\ frames = EmptyDict
    /\ native_calls = EmptyDict
    /\ pass_queue = <<>>
    /\ pass_mode = "idle"
    /\ OpIdle
    /\ CodecIdle
    /\ PickIdle
    /\ ResolveIdle
    /\ PhaseIdle
    /\ AdvanceIdle /\ WriterIdle /\ PidCacheIdle /\ EngineIdle

\* the operation `name` called with index and arg has come to `res`: when it
\* went on, _emit_rules (ensure_single_global_on_top) and _rearm_anim_timer
\* have run
OpDone(name, index, arg, res) ==
    /\ Len(EnsureSingleGlobalOnTop(res.rules)) <= MaxCtlRules
    /\ opName' = name
    /\ opIndex' = index
    /\ opArg' = arg
    /\ opBefore' = config_data.window_rules
    /\ opMsg' = res.msg
    /\ config_data' = IF res.commit
                      THEN [config_data EXCEPT
                               !.window_rules = EnsureSingleGlobalOnTop(res.rules)]
                      ELSE config_data
    /\ anim_timer_active' = IF res.commit
                            THEN HasAnimIn(EnsureSingleGlobalOnTop(res.rules)) /\ service_enabled
                            ELSE anim_timer_active
    /\ UNCHANGED <<cfg_file, service_enabled, timer_active>>
    /\ UNCHANGED <<windows, fg, anim_state, _pass_id, last_colors, border, frames,
                   pass_queue, pass_mode, native_calls>>
    /\ UNCHANGED <<codecVars, pickVars, resolveVars, phaseVars,
                   advanceVars, writerVars, pidVars, engineVars>>

OpAddRule ==
    \E rule \in OpRuleArgs :
        OpDone("add_rule", 0, <<rule>>, AddRuleResult(config_data.window_rules, rule))

OpEditRule ==
    \E index \in CtlIndexes, new_rule \in OpRuleArgs :
        OpDone("edit_rule", index, <<new_rule>>,
               EditRuleResult(config_data.window_rules, index, new_rule))

OpRemoveRule ==
    \E index \in CtlIndexes :
        OpDone("remove_rule", index, <<>>, RemoveRuleResult(config_data.window_rules, index))

OpDuplicateRule ==
    \E index \in CtlIndexes :
        OpDone("duplicate_rule", index, <<>>,
               DuplicateRuleResult(config_data.window_rules, index))

NextRuleOps == OpAddRule \/ OpEditRule \/ OpRemoveRule \/ OpDuplicateRule

SpecRuleOps == InitRuleOps /\ [][NextRuleOps]_vars

OpOutOfRange == opIndex < 0 \/ opIndex >= Len(opBefore)
OpOnGlobal == ~OpOutOfRange /\ IsGlobalRule(opBefore[opIndex + 1])
OpOnProcess == ~OpOutOfRange /\ IsProcessRule(opBefore[opIndex + 1])

\* C32: remove_rule and duplicate_rule applied to the index of the Global
\* rule leave the rule list unchanged and return a non-empty message;
\* applied to an out-of-range index they leave the list unchanged and return
\* the empty string; applied to a Process rule, remove_rule deletes exactly
\* that rule and duplicate_rule appends one copy at the end, all other rules
\* kept in their order.
C32_RemoveAndDuplicate ==
    opName \in {"remove_rule", "duplicate_rule"} =>
        /\ OpOutOfRange => (config_data.window_rules = opBefore /\ opMsg = <<>>)
        /\ OpOnGlobal => (config_data.window_rules = opBefore /\ opMsg # <<>>)
        /\ (OpOnProcess /\ opName = "remove_rule") =>
              config_data.window_rules = RemoveAt(opBefore, opIndex + 1)
        /\ (OpOnProcess /\ opName = "duplicate_rule") =>
              config_data.window_rules = Append(opBefore, opBefore[opIndex + 1])

\* the first of two Process rules has just been removed from a full list
C32_Witness ==
    /\ opName = "remove_rule"
    /\ Len(opBefore) = MaxCtlRules
    /\ opIndex = 1
    /\ OpOnProcess
    /\ opBefore[2] # opBefore[3]
    /\ config_data.window_rules = <<opBefore[1], opBefore[3]>>

\* edit_rule was called on a rule in range
OpEdited == opName = "edit_rule" /\ ~OpOutOfRange

\* C33: edit_rule(i, r) with r of kind Process and an empty `contains` keeps
\* the `contains` of the rule previously at index i; hence a Process rule
\* with a non-empty `contains` still has a non-empty `contains` after every
\* edit_rule call on it (a call that makes it a second Global rule drops it
\* from the list), and so after any sequence of such calls.
C33_EditKeepsContains ==
    OpEdited =>
        /\ (IsProcessRule(opArg[1]) /\ opArg[1].contains = <<>>) =>
              \E i \in DOMAIN config_data.window_rules :
                  /\ i \in {opIndex + 1, opIndex + 2}
                  /\ config_data.window_rules[i] =
                        [opArg[1] EXCEPT !.contains = opBefore[opIndex + 1].contains]
        /\ (IsProcessRule(opArg[1]) /\ opArg[1].contains = <<>> /\ OpOnProcess) =>
              config_data.window_rules =
                  [opBefore EXCEPT ![opIndex + 1] =
                      [opArg[1] EXCEPT !.contains = opBefore[opIndex + 1].contains]]
        /\ (OpOnProcess /\ opBefore[opIndex + 1].contains # <<>>) =>
              IF IsProcessRule(opArg[1])
              THEN /\ IsProcessRule(config_data.window_rules[opIndex + 1])
                   /\ config_data.window_rules[opIndex + 1].contains # <<>>
              ELSE config_data.window_rules = RemoveAt(opBefore, opIndex + 1)

\* a Process rule for "ab" was edited with a Process rule without `contains`
\* and other colours: it is still a rule for "ab", with the new colours
C33_Witness ==
    /\ OpEdited
    /\ OpOnProcess
    /\ opArg[1] = CTL_PROCESS_EMPTY
    /\ opBefore[opIndex + 1] = CTL_PROCESS_AB
    /\ config_data.window_rules[opIndex + 1] = [CTL_PROCESS_EMPTY EXCEPT !.contains = PROC_AB]


(***************************************************************************)
(* The entries of Animation._state                                         *)
(***************************************************************************)
\* SpecKeys: the controller runs passes over a window of process "ab" and
\* a window of process "c" while edit_rule changes the kinds of the rules
KEY_GLOBAL_FADE == Rule(MATCH_GLOBAL, <<>>, HEX_RED, HEX_BLUE, Anim(STR_FADE, 10))
KEY_PROCESS_STEPS == Rule(MATCH_PROCESS, <<>>, HEX_BLUE, HEX_RED, Anim(STR_STEPS, 25))
KEY_PROCESS_AB == Rule(MATCH_PROCESS, PROC_AB, HEX_RED, HEX_BLUE, Anim(STR_PULSE, 10))
KEY_PROCESS_C == Rule(MATCH_PROCESS, PROC_C, HEX_RED, HEX_BLUE, Anim(STR_PULSE, 10))
KeyRuleArgs == {KEY_GLOBAL_FADE, KEY_PROCESS_STEPS}

InitKeys ==
    /\ cfg_file = CtlFile(TRUE, NoAnimDict,
                          <<CTL_GLOBAL_RAINBOW, KEY_PROCESS_AB, KEY_PROCESS_C>>)
    /\ config_data = CtlLoaded(cfg_file)
    /\ service_enabled = cfg_file.service_enabled
    /\ timer_active = cfg_file.service_enabled
    /\ anim_timer_active =
          (cfg_file.service_enabled /\ HasAnimIn(ConfigLoad(cfg_file).window_rules))
    /\ windows = [h \in Handles |->
                     <<Window(IF h = 1 THEN PROC_AB ELSE PROC_C, <<"t">>, TRUE, FALSE)>>]
    /\ fg \in {0, 1}
    /\ anim_state = EmptyDict
    /\ _pass_id = 0
    /\ last_colors = EmptyDict
    /\ border = [h \in Handles |-> DWMWA_COLOR_DEFAULT]
    /\ frames = EmptyDict
    /\ native_calls = EmptyDict
    /\ pass_queue = <<>>
    /\ pass_mode = "idle"
    /\ OpIdle
    /\ CodecIdle
    /\ PickIdle
    /\ ResolveIdle
    /\ PhaseIdle
    /\ AdvanceIdle /\ WriterIdle /\ PidCacheIdle /\ EngineIdle

\* AppController.edit_rule called between passes
KeysEditRule ==
    /\ pass_mode = "idle"
    /\ \E index \in 0..(MaxCtlRules - 1), new_rule \in KeyRuleArgs :
          OpDone("edit_rule", index, <<new_rule>>,
                 EditRuleResult(config_data.window_rules, index, new_rule))

NextKeys ==
    \/ KeysEditRule \/ CtlTick \/ CtlTickAnim \/ CbWrites \/ CbRaises \/ EndPass

SpecKeys == InitKeys /\ [][NextKeys]_vars

\* the keys cb can make for a window of process `name`
KeysFor(name) ==
    {AnimKey(g, name, kind) : g \in BOOLEAN, kind \in AnimKinds}

\* the process names that own a key of Animation._state
NamesInKeys ==
    {w.process_name : w \in {w \in WindowSample :
        \E kind \in AnimKinds : AnimKey(FALSE, w.process_name, kind) \in DOMAIN anim_state}}

\* C34: the entries of Animation._state are created only on first use of a
\* key and never removed: a step keeps every entry, adds at most one, and
\* adds it only while cb handles a window, under a key made of GLOBAL or
\* that window's process name and of an animation kind, the pass just
\* recorded in it; the elapsed time of an entry never decreases; and the
\* entries never outnumber (animation kinds) x (1 + process names seen).
C34_AnimationStateGrowsOnly ==
    /\ [](Cardinality(DOMAIN anim_state)
              <= Cardinality(AnimKinds) * (1 + Cardinality(NamesInKeys)))
    /\ [][/\ DOMAIN anim_state \subseteq DOMAIN anim_state'
          /\ \A k \in DOMAIN anim_state : anim_state'[k].time >= anim_state[k].time
          /\ Cardinality(DOMAIN anim_state' \ DOMAIN anim_state) <= 1
          /\ \A k \in DOMAIN anim_state' \ DOMAIN anim_state :
                /\ pass_queue # <<>>
                /\ pass_queue' = Tail(pass_queue)
                /\ Eligible(Head(pass_queue))
                /\ k \in KeysFor(windows[Head(pass_queue)][1].process_name)
                /\ anim_state'[k].last_pass = _pass_id
                /\ anim_state'[k].time > 0
         ]_vars

\* in the last pass allowed there are entries under GLOBAL and under both
\* process names, of more than one kind, and one of them was made in the
\* pass before and has advanced again
C34_Witness ==
    /\ _pass_id = MaxPasses
    /\ \E kind \in AnimKinds : AnimKey(TRUE, <<>>, kind) \in DOMAIN anim_state
    /\ Cardinality(NamesInKeys) = 2
    /\ Cardinality(DOMAIN anim_state) >= 4
    /\ \E k \in DOMAIN anim_state, j \in DOMAIN anim_state :
          /\ anim_state[k].last_pass = MaxPasses
          /\ anim_state[j].last_pass = MaxPasses
          /\ anim_state[k].time > anim_state[j].time


(***************************************************************************)
(* get_process_name_fast call by call: SpecLookup.  Each call has its pid  *)
(* and what _query_process_name_native would return for it at that time    *)
(* ("" when the resolution fails); the clock runs between calls.           *)
(***************************************************************************)
\* the calls of the resolver counted per pid
MaxQueries == 2
\* what _query_process_name_native can return: a name, another name once
\* the pid is reused, "" for a failed resolution
NativeNames == {PROC_AB, PROC_C, <<>>}

\* a lookup that takes an empty cached name for a missing entry
LookupIfNamed(c, pid, native) ==
    IF pid \in DOMAIN c.names /\ c.names[pid] # <<>>
    THEN [names |-> c.names, seen |-> Put(c.seen, pid, 0),
          name |-> c.names[pid], queried |-> FALSE]
    ELSE [names |-> Put(c.names, pid, native), seen |-> Put(c.seen, pid, 0),
          name |-> native, queried |-> TRUE]

\* get_process_name_fast(pid) on [names, seen], `native` being what
\* _query_process_name_native(pid) returns if called: the caches after the
\* call, the name returned, whether the resolver was called
Lookup(c, pid, native) ==
    IF pid \in DOMAIN c.names
    THEN [names |-> c.names, seen |-> Put(c.seen, pid, 0),
          name |-> c.names[pid], queried |-> FALSE]
    ELSE [names |-> Put(c.names, pid, native), seen |-> Put(c.seen, pid, 0),
          name |-> native, queried |-> TRUE]

InitLookup ==
    /\ pid_name_cache = EmptyDict
    /\ pid_last_seen = EmptyDict
    /\ pidQueries = [pid \in Pids |-> 0]
    /\ pidOut = <<>>
    /\ CodecIdle
    /\ PickIdle
    /\ ResolveIdle
    /\ PassIdle
    /\ PhaseIdle
    /\ AdvanceIdle /\ WriterIdle /\ ControllerIdle /\ EngineIdle /\ OpIdle

LookupRest ==
    UNCHANGED <<codecVars, pickVars, resolveVars, passVars, phaseVars,
                advanceVars, writerVars, controllerVars, engineVars, opVars>>

\* one call of get_process_name_fast
LookupCall ==
    /\ \A p \in Pids : pidQueries[p] < MaxQueries
    /\ \E pid \in Pids, native \in NativeNames :
          \E r \in {Lookup([names |-> pid_name_cache, seen |-> pid_last_seen], pid, native)} :
              /\ pid_name_cache' = r.names
              /\ pid_last_seen' = r.seen
              /\ pidQueries' = [pidQueries EXCEPT ![pid] = @ + (IF r.queried THEN 1 ELSE 0)]
              /\ pidOut' = <<[pid |-> pid, name |-> r.name, queried |-> r.queried,
                             stored |-> EntryOf(pid_name_cache, pid)]>>
    /\ LookupRest

\* time passes between calls
LookupClock ==
    /\ pid_last_seen' = [pid \in DOMAIN pid_last_seen |->
                            Min(pid_last_seen[pid] + ClockStep, AgeCap)]
    /\ pidOut' = <<>>
    /\ UNCHANGED <<pid_name_cache, pidQueries>>
    /\ LookupRest

NextLookup == LookupCall \/ LookupClock

SpecLookup == InitLookup /\ [][NextLookup]_vars

\* C35: once a pid has an entry in _pid_name_cache, an empty name stored
\* after a failed resolution included, every later lookup of that pid
\* returns the stored name without calling the resolver and refreshes
\* _pid_last_seen; the resolver is called at most once per pid while the
\* entry exists.
C35_CachedNameServed ==
    /\ \A pid \in Pids : pidQueries[pid] <= 1
    /\ \A pid \in Pids : pidQueries[pid] = 1 <=> pid \in DOMAIN pid_name_cache
    /\ pidOut # <<>> =>
          /\ pid_last_seen[pidOut[1].pid] = 0
          /\ pid_name_cache[pidOut[1].pid] = pidOut[1].name
          /\ pidOut[1].stored # <<>> =>
                /\ ~pidOut[1].queried
                /\ pidOut[1].name = pidOut[1].stored[1]
          /\ pidOut[1].stored = <<>> => pidOut[1].queried

\* a pid whose resolution failed is looked up again, later: the lookup
\* returns the empty name stored, without a call of the resolver
C35_Witness ==
    /\ pidOut # <<>>
    /\ pidOut[1].stored = <<(<<>>)>>
    /\ pidOut[1].name = <<>>
    /\ ~pidOut[1].queried
    /\ pidQueries[pidOut[1].pid] = 1
    /\ \E pid \in DOMAIN pid_last_seen : pid_last_seen[pid] > MAX_AGE

====
